---- MODULE Spec2Model ----
(***************************************************************************)
(* Instagram Followers Analyzer (src/app.py): the identity value object,   *)
(* the four export parsers, the set analysis and the Excel export, as      *)
(* operators computed the way the Python code computes them, and a state   *)
(* machine whose actions call them on inputs drawn from bounded sets.      *)
(*                                                                         *)
(* A second state machine is the Streamlit session of main(): the dict    *)
(* st.session_state and the last run of the script.                        *)
(*                                                                         *)
(* A third one is two parser calls in flight at once, each running the    *)
(* iterations of its loop between those of the other.                      *)
(*                                                                         *)
(* A Python str is a sequence of one-character strings, a Python set of    *)
(* InstagramUser is a set of records no two of which are __eq__, a Python  *)
(* dict keyed by str is a function, and a decoded JSON value is a record   *)
(* tagged by its Python type (k).  A call that raises is a result whose    *)
(* exc field names the exception.                                          *)
(***************************************************************************)
EXTENDS Integers, Sequences, FiniteSets, TLC

VARIABLES call, session_state, run, calls

vars == <<call, session_state, run, calls>>

(***************************************************************************)
(* Bounds of the model.                                                    *)
(***************************************************************************)
MaxStrLen == 2
MaxTs == 2
MaxFiles == 2
MaxEntries == 2

(***************************************************************************)
(* Python str: lower() and strip().                                        *)
(***************************************************************************)
Chars == {"a", "A", "b", " "}

LowerChar(c) == CASE c = "A" -> "a" [] c = "B" -> "b" [] OTHER -> c

Lower(s) == [i \in 1..Len(s) |-> LowerChar(s[i])]

IsSpace(c) == c = " "

RECURSIVE LStrip(_)
LStrip(s) == IF s # <<>> /\ IsSpace(Head(s)) THEN LStrip(Tail(s)) ELSE s

RECURSIVE RStrip(_)
RStrip(s) ==
    IF s # <<>> /\ IsSpace(s[Len(s)]) THEN RStrip(SubSeq(s, 1, Len(s) - 1)) ELSE s

Strip(s) == RStrip(LStrip(s))

\* ord() of the characters of the model, for the built-in hash of a str
Ord(c) == CASE c = " " -> 32 [] c = "A" -> 65 [] c = "B" -> 66
            [] c = "a" -> 97 [] c = "b" -> 98 [] OTHER -> 63

\* the built-in hash of a str: a function of the characters alone
RECURSIVE StrHash(_)
StrHash(s) ==
    IF s = <<>> THEN 0 ELSE 131 * StrHash(SubSeq(s, 1, Len(s) - 1)) + Ord(s[Len(s)])

(***************************************************************************)
(* class InstagramUser (frozen dataclass with one field).                  *)
(***************************************************************************)
InstagramUser(username) == [username |-> username]

\* __hash__, as a bug would have it: the hash of the username as written
UserHashCaseSensitive(u) == StrHash(u.username)

\* InstagramUser.__hash__
UserHash(u) == StrHash(Lower(u.username))

\* __eq__, as a bug would have it: usernames compared as written
UserEqCaseSensitive(u, v) == u.username = v.username

\* InstagramUser.__eq__ between two InstagramUser values
UserEq(u, v) == Lower(u.username) = Lower(v.username)

(***************************************************************************)
(* Python set of InstagramUser: membership by __hash__ and __eq__; the     *)
(* element already present is kept when an equal one is added.             *)
(***************************************************************************)
SetContains(users, u) == \E v \in users : UserHash(v) = UserHash(u) /\ UserEq(v, u)

\* set.add, as a bug would have it: no lookup of an equal element
SetAddNoDedup(users, u) == users \cup {u}

\* set.add, as a bug would have it: the element added takes the place of
\* the equal one
SetAddLastWins(users, u) == {v \in users : ~UserEq(v, u)} \cup {u}

\* set.add
SetAdd(users, u) == IF SetContains(users, u) THEN users ELSE users \cup {u}

\* a - b
SetMinus(a, b) == {u \in a : ~SetContains(b, u)}

\* a & b: CPython walks the smaller operand (the right one on a tie) and
\* keeps its elements that the other operand contains
SetAnd(a, b) ==
    IF Cardinality(b) > Cardinality(a)
    THEN {u \in a : SetContains(b, u)}
    ELSE {u \in b : SetContains(a, u)}

(***************************************************************************)
(* Decoded JSON values, tagged by their Python type.  A dict is the        *)
(* sequence of its <<key, value>> pairs.                                   *)
(***************************************************************************)
JNull == [k |-> "null"]
JInt(n) == [k |-> "int", n |-> n]
JStr(s) == [k |-> "str", s |-> s]
JList(l) == [k |-> "list", l |-> l]
JDict(d) == [k |-> "dict", d |-> d]

IsList(v) == v.k = "list"
IsDict(v) == v.k = "dict"
IsStr(v) == v.k = "str"
IsInt(v) == v.k = "int"

\* bool(v), as a bug would have it: only None is false (an "is not None" test)
TruthyNotNone(v) == v.k # "null"

\* bool(v): None, 0, "", [] and {} are false
Truthy(v) ==
    CASE v.k = "null" -> FALSE
      [] v.k = "int" -> v.n # 0
      [] v.k = "str" -> v.s # <<>>
      [] v.k = "list" -> v.l # <<>>
      [] v.k = "dict" -> v.d # <<>>

\* d.get(key, default) of a dict d
DictGet(d, key, default) ==
    LET hits == {i \in 1..Len(d.d) : d.d[i][1] = key}
    IN IF hits = {} THEN default
       ELSE d.d[CHOOSE i \in hits : \A j \in hits : j <= i][2]

\* the elements a for loop over v visits: the items of a list, the
\* characters of a str, the keys of a dict
Iterate(v) ==
    CASE v.k = "list" -> v.l
      [] v.k = "str" -> [i \in 1..Len(v.s) |-> JStr(<<v.s[i]>>)]
      [] v.k = "dict" -> [i \in 1..Len(v.d) |-> JStr(<<v.d[i][1]>>)]
      [] OTHER -> <<>>

Iterable(v) == v.k \in {"list", "str", "dict"}

(***************************************************************************)
(* Byte buffers: content.decode('utf-8') and json.loads.                   *)
(***************************************************************************)
BadUtf8 == [b |-> "invalid_utf8"]
BadJson == [b |-> "invalid_json"]
JsonBytes(v) == [b |-> "json", v |-> v]

\* json.loads(content.decode('utf-8')): the value, or the exception raised
Loads(content) ==
    CASE content.b = "invalid_utf8" -> [exc |-> "UnicodeDecodeError"]
      [] content.b = "invalid_json" -> [exc |-> "JSONDecodeError"]
      [] OTHER -> [exc |-> "none", v |-> content.v]

\* the exceptions the parsers' except clauses name
Caught(exc) == exc \in {"JSONDecodeError", "UnicodeDecodeError"}

(***************************************************************************)
(* The running state of a parser call: the users set, the timestamps dict  *)
(* and the exception that has left the function, if any.                   *)
(***************************************************************************)
EmptyMap == [x \in {} |-> JNull]

\* timestamps[key] = v, as a bug would have it: a key that is there keeps
\* its value (setdefault)
MapSetFirstWins(m, key, v) ==
    [x \in DOMAIN m \cup {key} |-> IF x \in DOMAIN m THEN m[x] ELSE v]

\* timestamps[key] = v
MapSet(m, key, v) == [x \in DOMAIN m \cup {key} |-> IF x = key THEN v ELSE m[x]]

Start == [users |-> {}, timestamps |-> EmptyMap, exc |-> "none"]

Raise(st, exc) == [st EXCEPT !.exc = exc]

\* what leaves the function: the values returned, or the exception alone
ReturnUsers(st) ==
    IF st.exc = "none" THEN [exc |-> "none", users |-> st.users] ELSE [exc |-> st.exc]

ReturnBoth(st) ==
    IF st.exc = "none"
    THEN [exc |-> "none", users |-> st.users, timestamps |-> st.timestamps]
    ELSE [exc |-> st.exc]

\* the except clause of a try block whose body ended in state st
Except(st) == IF Caught(st.exc) THEN [st EXCEPT !.exc = "none"] ELSE st

(***************************************************************************)
(* parse_followers                                                         *)
(***************************************************************************)
\* the body of "for item in string_list"
FollowersItem(st, item) ==
    IF ~IsDict(item) THEN Raise(st, "AttributeError")          \* item.get
    ELSE LET value == DictGet(item, "value", JNull)
         IN IF ~Truthy(value) THEN st
            ELSE IF ~IsStr(value) THEN Raise(st, "AttributeError")   \* value.strip
            ELSE [st EXCEPT !.users = SetAdd(@, InstagramUser(Strip(value.s)))]

\* the loop "for item in string_list", left once the body raises
RECURSIVE FollowersItems(_, _)
FollowersItems(st, seq) ==
    IF seq = <<>> \/ st.exc # "none" THEN st
    ELSE FollowersItems(FollowersItem(st, Head(seq)), Tail(seq))

\* the body of "for entry in data"
FollowersEntry(st, entry) ==
    IF ~IsDict(entry) THEN Raise(st, "AttributeError")         \* entry.get
    ELSE LET string_list == DictGet(entry, "string_list_data", JList(<<>>))
         IN IF ~Iterable(string_list) THEN Raise(st, "TypeError")
            ELSE FollowersItems(st, Iterate(string_list))

\* the loop "for entry in data", left once the body raises
RECURSIVE FollowersEntries(_, _)
FollowersEntries(st, seq) ==
    IF seq = <<>> \/ st.exc # "none" THEN st
    ELSE FollowersEntries(FollowersEntry(st, Head(seq)), Tail(seq))

\* the body of "for content in files": the try block and its except clause
FollowersFile(st, content) ==
    LET data == Loads(content)
    IN Except(IF data.exc # "none" THEN Raise(st, data.exc)
              ELSE IF ~IsList(data.v) THEN st
              ELSE FollowersEntries(st, data.v.l))

\* the loop "for content in files", left once the body raises
RECURSIVE FollowersFiles(_, _)
FollowersFiles(st, seq) ==
    IF seq = <<>> \/ st.exc # "none" THEN st
    ELSE FollowersFiles(FollowersFile(st, Head(seq)), Tail(seq))

parse_followers(files) == ReturnUsers(FollowersFiles(Start, files))

(***************************************************************************)
(* parse_followers_with_timestamps                                         *)
(***************************************************************************)
\* the item loop's body, as a bug would have it: no strip() of the value
FollowersItemTsNoStrip(st, item) ==
    IF ~IsDict(item) THEN Raise(st, "AttributeError")
    ELSE LET value == DictGet(item, "value", JNull)
         IN IF ~Truthy(value) THEN st
            ELSE IF ~IsStr(value) THEN Raise(st, "AttributeError")
            ELSE LET username == value.s
                     ts == DictGet(item, "timestamp", JNull)
                     st1 == [st EXCEPT !.users = SetAdd(@, InstagramUser(username))]
                 IN IF Truthy(ts)
                    THEN [st1 EXCEPT !.timestamps = MapSet(@, Lower(username), ts)]
                    ELSE st1

\* the item loop's body, as a bug would have it: the timestamp is stored
\* whether the item has one or not
FollowersItemTsAlwaysKey(st, item) ==
    IF ~IsDict(item) THEN Raise(st, "AttributeError")
    ELSE LET value == DictGet(item, "value", JNull)
         IN IF ~Truthy(value) THEN st
            ELSE IF ~IsStr(value) THEN Raise(st, "AttributeError")
            ELSE LET username == Strip(value.s)
                     ts == DictGet(item, "timestamp", JNull)
                     st1 == [st EXCEPT !.users = SetAdd(@, InstagramUser(username))]
                 IN [st1 EXCEPT !.timestamps = MapSet(@, Lower(username), ts)]

\* the item loop's body, as a bug would have it: the timestamp of an item
\* without a value is stored, under the empty key
FollowersItemTsStampSkipped(st, item) ==
    IF ~IsDict(item) THEN Raise(st, "AttributeError")
    ELSE LET value == DictGet(item, "value", JNull)
             ts == DictGet(item, "timestamp", JNull)
         IN IF ~Truthy(value)
            THEN IF Truthy(ts) THEN [st EXCEPT !.timestamps = MapSet(@, <<>>, ts)]
                 ELSE st
            ELSE IF ~IsStr(value) THEN Raise(st, "AttributeError")
            ELSE LET username == Strip(value.s)
                     st1 == [st EXCEPT !.users = SetAdd(@, InstagramUser(username))]
                 IN IF Truthy(ts)
                    THEN [st1 EXCEPT !.timestamps = MapSet(@, Lower(username), ts)]
                    ELSE st1

\* the body of "for item in string_list"
FollowersItemTs(st, item) ==
    IF ~IsDict(item) THEN Raise(st, "AttributeError")          \* item.get
    ELSE LET value == DictGet(item, "value", JNull)
         IN IF ~Truthy(value) THEN st
            ELSE IF ~IsStr(value) THEN Raise(st, "AttributeError")   \* value.strip
            ELSE LET username == Strip(value.s)
                     ts == DictGet(item, "timestamp", JNull)
                     st1 == [st EXCEPT !.users = SetAdd(@, InstagramUser(username))]
                 IN IF Truthy(ts)
                    THEN [st1 EXCEPT !.timestamps = MapSet(@, Lower(username), ts)]
                    ELSE st1

\* the loop "for item in string_list", left once the body raises
RECURSIVE FollowersItemsTs(_, _)
FollowersItemsTs(st, seq) ==
    IF seq = <<>> \/ st.exc # "none" THEN st
    ELSE FollowersItemsTs(FollowersItemTs(st, Head(seq)), Tail(seq))

\* the body of "for entry in data"
FollowersEntryTs(st, entry) ==
    IF ~IsDict(entry) THEN Raise(st, "AttributeError")         \* entry.get
    ELSE LET string_list == DictGet(entry, "string_list_data", JList(<<>>))
         IN IF ~Iterable(string_list) THEN Raise(st, "TypeError")
            ELSE FollowersItemsTs(st, Iterate(string_list))

\* the loop "for entry in data", left once the body raises
RECURSIVE FollowersEntriesTs(_, _)
FollowersEntriesTs(st, seq) ==
    IF seq = <<>> \/ st.exc # "none" THEN st
    ELSE FollowersEntriesTs(FollowersEntryTs(st, Head(seq)), Tail(seq))

\* the file loop's body, as a bug would have it: a buffer that does not
\* decode to a list ends the loop and drops what was gathered
FollowersFileTsAbort(st, content) ==
    LET data == Loads(content)
    IN IF data.exc # "none" \/ ~IsList(data.v) THEN Start
       ELSE FollowersEntriesTs(st, data.v.l)

\* the body of "for content in files": the try block and its except clause
FollowersFileTs(st, content) ==
    LET data == Loads(content)
    IN Except(IF data.exc # "none" THEN Raise(st, data.exc)
              ELSE IF ~IsList(data.v) THEN st
              ELSE FollowersEntriesTs(st, data.v.l))

\* the loop "for content in files", left once the body raises
RECURSIVE FollowersFilesTs(_, _)
FollowersFilesTs(st, seq) ==
    IF seq = <<>> \/ st.exc # "none" THEN st
    ELSE FollowersFilesTs(FollowersFileTs(st, Head(seq)), Tail(seq))

parse_followers_with_timestamps(files) ==
    ReturnBoth(FollowersFilesTs(Start, files))

(***************************************************************************)
(* parse_following                                                         *)
(***************************************************************************)
\* the body of "for entry in relationships"
FollowingEntry(st, entry) ==
    IF ~IsDict(entry) THEN Raise(st, "AttributeError")         \* entry.get
    ELSE LET title == DictGet(entry, "title", JNull)
         IN IF ~Truthy(title) THEN st
            ELSE IF ~IsStr(title) THEN Raise(st, "AttributeError")   \* title.strip
            ELSE [st EXCEPT !.users = SetAdd(@, InstagramUser(Strip(title.s)))]

\* the loop "for entry in relationships", left once the body raises
RECURSIVE FollowingEntries(_, _)
FollowingEntries(st, seq) ==
    IF seq = <<>> \/ st.exc # "none" THEN st
    ELSE FollowingEntries(FollowingEntry(st, Head(seq)), Tail(seq))

\* the try block
FollowingBody(st, content) ==
    LET data == Loads(content)
    IN IF data.exc # "none" THEN Raise(st, data.exc)
       ELSE IF ~IsDict(data.v) THEN Raise(st, "AttributeError")      \* data.get
       ELSE LET relationships == DictGet(data.v, "relationships_following", JList(<<>>))
            IN IF ~IsList(relationships) THEN st
               ELSE FollowingEntries(st, relationships.l)

parse_following(content) == ReturnUsers(Except(FollowingBody(Start, content)))

(***************************************************************************)
(* parse_following_with_timestamps                                         *)
(***************************************************************************)
\* the lookup as a bug would have it: the timestamp of the first element
\* that carries one, wherever it stands in the list
FirstTimestampAny(string_list) ==
    CASE string_list.k = "list" ->
           IF IsDict(string_list.l[1])
           THEN LET stamped == SelectSeq(string_list.l,
                                 LAMBDA it : IsDict(it)
                                   /\ Truthy(DictGet(it, "timestamp", JNull)))
                IN [exc |-> "none",
                    v |-> IF stamped = <<>> THEN JNull
                          ELSE DictGet(stamped[1], "timestamp", JNull)]
           ELSE [exc |-> "AttributeError"]
      [] string_list.k = "str" -> [exc |-> "AttributeError"]
      [] string_list.k = "dict" -> [exc |-> "KeyError"]
      [] OTHER -> [exc |-> "TypeError"]

\* string_list[0].get("timestamp"), reached when string_list is true: the
\* value, or the exception raised
FirstTimestamp(string_list) ==
    CASE string_list.k = "list" ->
           IF IsDict(string_list.l[1])
           THEN [exc |-> "none", v |-> DictGet(string_list.l[1], "timestamp", JNull)]
           ELSE [exc |-> "AttributeError"]
      [] string_list.k = "str" -> [exc |-> "AttributeError"]    \* a character has no get
      [] string_list.k = "dict" -> [exc |-> "KeyError"]         \* no key 0
      [] OTHER -> [exc |-> "TypeError"]                         \* an int has no [0]

\* the entry loop's body, as a bug would have it: an entry without a title
\* is recorded under the empty handle
FollowingEntryTsKeepUntitled(st, entry) ==
    IF ~IsDict(entry) THEN Raise(st, "AttributeError")
    ELSE LET title == DictGet(entry, "title", JStr(<<>>))
         IN IF ~IsStr(title) THEN Raise(st, "AttributeError")
            ELSE LET username == Strip(title.s)
                     string_list == DictGet(entry, "string_list_data", JList(<<>>))
                     st1 == [st EXCEPT !.users = SetAdd(@, InstagramUser(username))]
                 IN IF ~Truthy(string_list) THEN st1
                    ELSE LET ts == FirstTimestamp(string_list)
                         IN IF ts.exc # "none" THEN Raise(st1, ts.exc)
                            ELSE IF Truthy(ts.v)
                            THEN [st1 EXCEPT !.timestamps = MapSet(@, Lower(username), ts.v)]
                            ELSE st1

\* the entry loop's body, as a bug would have it: the identity is added
\* only when the entry has a timestamp
FollowingEntryTsStampedOnly(st, entry) ==
    IF ~IsDict(entry) THEN Raise(st, "AttributeError")
    ELSE LET title == DictGet(entry, "title", JNull)
         IN IF ~Truthy(title) THEN st
            ELSE IF ~IsStr(title) THEN Raise(st, "AttributeError")
            ELSE LET username == Strip(title.s)
                     string_list == DictGet(entry, "string_list_data", JList(<<>>))
                 IN IF ~Truthy(string_list) THEN st
                    ELSE LET ts == FirstTimestamp(string_list)
                         IN IF ts.exc # "none" THEN Raise(st, ts.exc)
                            ELSE IF Truthy(ts.v)
                            THEN [st EXCEPT
                                    !.users = SetAdd(@, InstagramUser(username)),
                                    !.timestamps = MapSet(@, Lower(username), ts.v)]
                            ELSE st

\* the body of "for entry in relationships"
FollowingEntryTs(st, entry) ==
    IF ~IsDict(entry) THEN Raise(st, "AttributeError")         \* entry.get
    ELSE LET title == DictGet(entry, "title", JNull)
         IN IF ~Truthy(title) THEN st
            ELSE IF ~IsStr(title) THEN Raise(st, "AttributeError")   \* title.strip
            ELSE LET username == Strip(title.s)
                     string_list == DictGet(entry, "string_list_data", JList(<<>>))
                     st1 == [st EXCEPT !.users = SetAdd(@, InstagramUser(username))]
                 IN IF ~Truthy(string_list) THEN st1
                    ELSE LET ts == FirstTimestamp(string_list)
                         IN IF ts.exc # "none" THEN Raise(st1, ts.exc)
                            ELSE IF Truthy(ts.v)
                            THEN [st1 EXCEPT !.timestamps = MapSet(@, Lower(username), ts.v)]
                            ELSE st1

\* the loop "for entry in relationships", left once the body raises
RECURSIVE FollowingEntriesTs(_, _)
FollowingEntriesTs(st, seq) ==
    IF seq = <<>> \/ st.exc # "none" THEN st
    ELSE FollowingEntriesTs(FollowingEntryTs(st, Head(seq)), Tail(seq))

\* the try block
FollowingBodyTs(st, content) ==
    LET data == Loads(content)
    IN IF data.exc # "none" THEN Raise(st, data.exc)
       ELSE IF ~IsDict(data.v) THEN Raise(st, "AttributeError")      \* data.get
       ELSE LET relationships == DictGet(data.v, "relationships_following", JList(<<>>))
            IN IF ~IsList(relationships) THEN st
               ELSE FollowingEntriesTs(st, relationships.l)

parse_following_with_timestamps(content) ==
    ReturnBoth(Except(FollowingBodyTs(Start, content)))

(***************************************************************************)
(* analyze                                                                 *)
(***************************************************************************)
\* analyze, as a bug would have it: the two differences exchanged
analyzeSwapped(followers, following) ==
    [not_following_back |-> SetMinus(followers, following),
     not_followed_by_me |-> SetMinus(following, followers),
     mutual |-> SetAnd(followers, following),
     total_followers |-> Cardinality(followers),
     total_following |-> Cardinality(following)]

\* analyze, as a bug would have it: mutual members left in the differences
analyzeKeepMutual(followers, following) ==
    [not_following_back |-> following,
     not_followed_by_me |-> followers,
     mutual |-> SetAnd(followers, following),
     total_followers |-> Cardinality(followers),
     total_following |-> Cardinality(following)]

analyze(followers, following) ==
    [not_following_back |-> SetMinus(following, followers),
     not_followed_by_me |-> SetMinus(followers, following),
     mutual |-> SetAnd(followers, following),
     total_followers |-> Cardinality(followers),
     total_following |-> Cardinality(following)]

\* the operands, as a bug would have it: the difference taken in place
\* (following -= followers)
analyzeOperandsInPlace(followers, following) ==
    [followers |-> followers, following |-> SetMinus(following, followers)]

\* the sets that followers and following are bound to once analyze has
\* returned: -, & and len() build new values and leave their operands alone
analyzeOperands(followers, following) ==
    [followers |-> followers, following |-> following]

(***************************************************************************)
(* generate_excel: the workbook as the sequence of its sheets, a sheet as  *)
(* its name, its column headers and its rows.                              *)
(***************************************************************************)
\* InstagramUser.profile_url
ProfileBase ==
    <<"h", "t", "t", "p", "s", ":", "/", "/", "w", "w", "w", ".">>
        \o <<"i", "n", "s", "t", "a", "g", "r", "a", "m", ".", "c", "o", "m", "/">>

profile_url(u) == ProfileBase \o u.username

\* s < t of two str: by the first character that differs, a prefix first
StrLess(s, t) ==
    \/ Len(s) < Len(t) /\ SubSeq(t, 1, Len(s)) = s
    \/ \E i \in 1..Len(s) :
         /\ i <= Len(t)
         /\ SubSeq(s, 1, i - 1) = SubSeq(t, 1, i - 1)
         /\ Ord(s[i]) < Ord(t[i])

\* the sort key, as a bug would have it: the username as written
SortKeyCaseSensitive(u) == u.username

\* key=lambda x: x.username.lower()
SortKey(u) == Lower(u.username)

\* sorted(users, key=...): the members in ascending order of their keys
RECURSIVE Sorted(_)
Sorted(users) ==
    IF users = {} THEN <<>>
    ELSE LET least == CHOOSE u \in users :
                        \A v \in users : ~StrLess(SortKey(v), SortKey(u))
         IN <<least>> \o Sorted(users \ {least})

\* the longest sheet name a workbook takes
SheetNameMax == 31

\* sheet_name[:31]
Truncate(sheet_name) ==
    SubSeq(sheet_name, 1, IF Len(sheet_name) < SheetNameMax
                          THEN Len(sheet_name) ELSE SheetNameMax)

Resumen == <<"R", "e", "s", "u", "m", "e", "n">>
NoTeSiguen == <<"N", "o", " ", "t", "e", " ", "s", "i", "g", "u", "e", "n">>
NoSigues == <<"N", "o", " ", "s", "i", "g", "u", "e", "s">>
Mutuos == <<"M", "u", "t", "u", "o", "s">>

\* the summary sheet, as a bug would have it: the counts of the two
\* differences exchanged
SummarySheetSwapped(results) ==
    [name |-> Resumen,
     columns |-> <<"Metrica", "Valor">>,
     rows |-> << <<"Total Seguidores", results.total_followers>>,
                 <<"Total Seguidos", results.total_following>>,
                 <<"No te siguen de vuelta", Cardinality(results.not_followed_by_me)>>,
                 <<"No sigues de vuelta", Cardinality(results.not_following_back)>>,
                 <<"Seguidores mutuos", Cardinality(results.mutual)>> >>]

\* summary_data written as the sheet "Resumen" (the header of its first
\* column is spelled without its accent here)
SummarySheet(results) ==
    [name |-> Resumen,
     columns |-> <<"Metrica", "Valor">>,
     rows |-> << <<"Total Seguidores", results.total_followers>>,
                 <<"Total Seguidos", results.total_following>>,
                 <<"No te siguen de vuelta", Cardinality(results.not_following_back)>>,
                 <<"No sigues de vuelta", Cardinality(results.not_followed_by_me)>>,
                 <<"Seguidores mutuos", Cardinality(results.mutual)>> >>]

\* the body of "for sheet_name, users in sheets"
DetailSheet(sheet_name, users) ==
    [name |-> Truncate(sheet_name),
     columns |-> <<"Usuario", "Perfil">>,
     rows |-> IF users # {}
              THEN [i \in 1..Cardinality(users) |->
                      <<Sorted(users)[i].username, profile_url(Sorted(users)[i])>>]
              ELSE <<>>]

\* the export, as a bug would have it: a category without members gets no
\* sheet
generate_excelSkipEmpty(results) ==
    <<SummarySheet(results)>>
      \o SelectSeq(<<DetailSheet(NoTeSiguen, results.not_following_back),
                     DetailSheet(NoSigues, results.not_followed_by_me),
                     DetailSheet(Mutuos, results.mutual)>>,
                   LAMBDA sheet : sheet.rows # <<>>)

generate_excel(results) ==
    <<SummarySheet(results),
      DetailSheet(NoTeSiguen, results.not_following_back),
      DetailSheet(NoSigues, results.not_followed_by_me),
      DetailSheet(Mutuos, results.mutual)>>

(***************************************************************************)
(* Parse, analyze and export in a row.                                     *)
(***************************************************************************)
\* the flow, as a bug would have it: the two sets handed to analyze in the
\* wrong order
full_flowSwapped(files, content, with_timestamps) ==
    LET followers == IF with_timestamps THEN parse_followers_with_timestamps(files)
                     ELSE parse_followers(files)
        following == IF with_timestamps THEN parse_following_with_timestamps(content)
                     ELSE parse_following(content)
    IN IF followers.exc # "none" THEN [exc |-> followers.exc]
       ELSE IF following.exc # "none" THEN [exc |-> following.exc]
       ELSE LET results == analyze(following.users, followers.users)
            IN [exc |-> "none", followers |-> followers.users,
                following |-> following.users, results |-> results,
                excel_data |-> generate_excel(results)]

\* the two exports parsed, by the set-only parsers or by the timestamps
\* parsers, then analyzed and exported; an exception of a parser leaves the
\* flow
full_flow(files, content, with_timestamps) ==
    LET followers == IF with_timestamps THEN parse_followers_with_timestamps(files)
                     ELSE parse_followers(files)
        following == IF with_timestamps THEN parse_following_with_timestamps(content)
                     ELSE parse_following(content)
    IN IF followers.exc # "none" THEN [exc |-> followers.exc]
       ELSE IF following.exc # "none" THEN [exc |-> following.exc]
       ELSE LET results == analyze(followers.users, following.users)
            IN [exc |-> "none", followers |-> followers.users,
                following |-> following.users, results |-> results,
                excel_data |-> generate_excel(results)]

(***************************************************************************)
(* The session: st.session_state is a dict, a function of the keys it      *)
(* holds; main() runs once for every interaction with the page.            *)
(***************************************************************************)
None == [k |-> "None"]

\* a Set[InstagramUser] held under a key of the session
Loaded(users) == [k |-> "set", users |-> users]

\* bool(v) of None or a set
Bool(v) == v # None /\ v.users # {}

\* st.session_state without any key
NoKeys == [key \in {} |-> None]

defaults ==
    [followers |-> None, following |-> None, results |-> None,
     followers_timestamps |-> EmptyMap, following_timestamps |-> EmptyMap]

\* init_state: every key that the session lacks gets its default
init_state(session) ==
    [key \in DOMAIN session \cup DOMAIN defaults |->
       IF key \in DOMAIN session THEN session[key] ELSE defaults[key]]

\* "Determinar paso actual"
step(session) ==
    IF session.results # None THEN 4
    ELSE IF session.following # None THEN 3
    ELSE IF session.followers # None THEN 2
    ELSE 1

\* the body of the followers try block, as a bug would have it: "if users:"
\* is not asked
StoreFollowersUnguarded(session, parsed) ==
    IF parsed.exc # "none" THEN session
    ELSE [session EXCEPT !.followers = Loaded(parsed.users),
                         !.followers_timestamps = parsed.timestamps]

\* the body of the followers try block, given what the parse has returned
\* or raised: "if users:" stores the set and the timestamps, and except
\* Exception shows the error and goes on
StoreFollowers(session, parsed) ==
    IF parsed.exc # "none" THEN session
    ELSE IF parsed.users # {}
    THEN [session EXCEPT !.followers = Loaded(parsed.users),
                         !.followers_timestamps = parsed.timestamps]
    ELSE session

\* "if followers_files:" and its try block
FollowersUpload(session, followers_files) ==
    IF followers_files = <<>> THEN session
    ELSE StoreFollowers(session, parse_followers_with_timestamps(followers_files))

\* the body of the following try block
StoreFollowing(session, parsed) ==
    IF parsed.exc # "none" THEN session
    ELSE IF parsed.users # {}
    THEN [session EXCEPT !.following = Loaded(parsed.users),
                         !.following_timestamps = parsed.timestamps]
    ELSE session

\* "if following_file:" and its try block
FollowingUpload(session, following_file) ==
    IF following_file = None THEN session
    ELSE StoreFollowing(session, parse_following_with_timestamps(following_file))

\* the guard of the upload section, as a bug would have it: the section
\* is rendered with the results too
UploadSectionAlways(session) == TRUE

\* "if st.session_state.results is None:", the guard of the upload section
UploadSection(session) == session.results = None

\* the deletion, as a bug would have it: the result alone is deleted
DeleteKeysResultsOnly(session) ==
    [key \in DOMAIN session \ {"results"} |-> session[key]]

\* "for key in list(st.session_state.keys()): del st.session_state[key]"
DeleteKeys(session) == [key \in DOMAIN session \ DOMAIN session |-> session[key]]

\* the guard of the button, as a bug would have it: the button is rendered
\* whatever the session holds
AnalizarButtonUnguarded(session) == TRUE

\* "if st.session_state.followers and st.session_state.following:", the
\* guard of the button "Analizar"
AnalizarButton(session) == Bool(session.followers) /\ Bool(session.following)

\* no call of analyze in a run
NotInvoked == [k |-> "not invoked"]

\* the call of analyze of a run: the followers and the following of the
\* session that are handed over, and the results the session holds then
Invoked(session) ==
    [k |-> "invoked", followers |-> session.followers,
     following |-> session.following, results |-> session.results]

\* the end of a script run of main(), given the session after init_state,
\* the session after the upload section and the buttons pressed: the
\* session it leaves, what it has rendered, its call of analyze and whether
\* it has ended in st.rerun().  analyze raises TypeError on an operand that
\* is None ("followers - following"), and the run ends there.
Buttons(initialised, uploaded, analizar, nuevo_analisis) ==
    LET rendered ==
            [session_state |-> uploaded,
             step |-> step(initialised),
             upload_section |-> UploadSection(initialised),
             analizar_button |-> UploadSection(initialised) /\ AnalizarButton(uploaded),
             results |-> uploaded.results # None,
             analyze |-> NotInvoked,
             rerun |-> FALSE]
    IN IF rendered.analizar_button /\ analizar
       THEN IF uploaded.followers = None \/ uploaded.following = None
            THEN [rendered EXCEPT !.results = FALSE, !.analyze = Invoked(uploaded)]
            ELSE [rendered EXCEPT
                     !.session_state.results = analyze(uploaded.followers.users,
                                                       uploaded.following.users),
                     !.results = FALSE,
                     !.analyze = Invoked(uploaded),
                     !.rerun = TRUE]
       ELSE IF uploaded.results # None /\ nuevo_analisis
       THEN [rendered EXCEPT !.session_state = DeleteKeys(uploaded), !.rerun = TRUE]
       ELSE rendered

\* the upload section of a script run and what follows it
UploadsAndButtons(initialised, followers_files, following_file, analizar, nuevo_analisis) ==
    Buttons(initialised,
            IF UploadSection(initialised)
            THEN FollowingUpload(FollowersUpload(initialised, followers_files),
                                 following_file)
            ELSE initialised,
            analizar, nuevo_analisis)

\* one script run of main() on the session it finds, given what the two
\* uploaders hold and whether the buttons "Analizar" and "Nuevo analisis"
\* were pressed
script_run(session, followers_files, following_file, analizar, nuevo_analisis) ==
    UploadsAndButtons(init_state(session), followers_files, following_file,
                      analizar, nuevo_analisis)

\* the run that follows a script run ended in st.rerun(): no button is
\* pressed in it and the uploaders, not having been rendered with the
\* results, are empty; the call of analyze is the one of the first run
Rerun(first) ==
    IF first.rerun
    THEN [script_run(first.session_state, <<>>, None, FALSE, FALSE)
            EXCEPT !.analyze = first.analyze]
    ELSE first

\* main() as the session sees it: the script run of the interaction and,
\* where it has ended in st.rerun(), the run that follows it
main(session, followers_files, following_file, analizar, nuevo_analisis) ==
    Rerun(script_run(session, followers_files, following_file,
                     analizar, nuevo_analisis))

(***************************************************************************)
(* The inputs of the calls.                                                *)
(***************************************************************************)
SeqsUpTo(S, n) == UNION {[1..m -> S] : m \in 0..n}

\* every str of at most MaxStrLen characters
Strings == SeqsUpTo(Chars, MaxStrLen)

\* the usernames of the sets handed to analyze
AnalyzeNames == {<<"a">>, <<"A">>, <<"b">>, <<"B">>, <<"a", "b">>, <<"b", "a">>}

\* the sets of InstagramUser Python can build: no two members are __eq__
UserSets ==
    {S \in SUBSET {InstagramUser(n) : n \in AnalyzeNames} :
        \A u, v \in S : UserEq(u, v) => u = v}

\* a key that a JSON object does not hold
Absent == [k |-> "absent"]

Present(pairs) == SelectSeq(pairs, LAMBDA p : p[2] # Absent)

\* the raw strings under "value" and "title": plain, upper case, padded,
\* blank and empty
RawHandles == {<<"a">>, <<"A", " ">>, <<" ", "b">>, <<" ">>, <<>>}
PlainHandles == {<<"a">>, <<"A", " ">>, <<" ", "b">>}

Timestamps == {Absent} \cup {JInt(n) : n \in 0..MaxTs}
PlainTimestamps == {Absent} \cup {JInt(n) : n \in 1..MaxTs}

\* {"value": ..., "timestamp": ...}
Item(value, ts) == JDict(Present(<< <<"value", value>>, <<"timestamp", ts>> >>))

\* {"string_list_data": ...}
Entry(string_list) == JDict(Present(<< <<"string_list_data", string_list>> >>))

\* {"title": ..., "string_list_data": ...}
Relationship(title, string_list) ==
    JDict(Present(<< <<"title", title>>, <<"string_list_data", string_list>> >>))

\* {"relationships_following": ...}
FollowingDoc(relationships) ==
    JDict(Present(<< <<"relationships_following", relationships>> >>))

Items ==
    {Item(v, t) : v \in {Absent, JInt(7)} \cup {JStr(h) : h \in RawHandles},
                  t \in Timestamps}

PlainItems == {Item(JStr(h), t) : h \in PlainHandles, t \in PlainTimestamps}

\* values that are not the list the parsers expect under string_list_data
NotLists == {JNull, JInt(0), JInt(5), JStr(<<>>), JStr(<<"a">>), JDict(<<>>),
             JDict(<< <<"x", JInt(1)>> >>)}

\* followers documents with one entry at most
ShallowFollowersDocs ==
    {JNull, JInt(3), JDict(<<>>), FollowingDoc(JList(<<>>)), JList(<<>>),
     JList(<<JInt(1)>>), JList(<<JNull>>), JList(<<Entry(Absent)>>),
     JList(<<Entry(JList(<<JInt(1)>>))>>)}
    \cup {JList(<<Entry(sl)>>) : sl \in NotLists}
    \cup {JList(<<Entry(JList(<<it>>))>>) : it \in Items}

\* followers documents of several entries, and of several items in one entry
DeepFollowersDocs ==
    {JList(es) : es \in SeqsUpTo({Entry(JList(<<it>>)) : it \in PlainItems}
                                   \cup {Entry(Absent), Entry(JList(<<>>))},
                                 MaxEntries)}
    \cup {JList(<<Entry(JList(<<i1, i2>>))>>) : i1, i2 \in PlainItems}
    \cup {JList(<<Entry(JList(<<Item(Absent, JInt(1)), i2>>))>>) : i2 \in PlainItems}
    \cup {JList(<<Entry(JList(<<Item(JStr(<<"a">>), JInt(1)),
                                 Item(JStr(<<"A", " ">>), JInt(MaxTs)),
                                 Item(JStr(<<" ", "a">>), Absent)>>))>>)}

FollowersBuffers ==
    {BadUtf8, BadJson}
    \cup {JsonBytes(d) : d \in ShallowFollowersDocs \cup DeepFollowersDocs}

\* the buffers of the calls that pass several files
BatchBuffers ==
    {BadUtf8, BadJson, JsonBytes(JDict(<<>>)), JsonBytes(JList(<<>>)),
     JsonBytes(JList(<<JInt(1)>>))}
    \cup {JsonBytes(JList(<<Entry(JList(<<Item(JStr(h), t)>>))>>)) :
            h \in PlainHandles \cup {<<" ">>}, t \in {Absent, JInt(0), JInt(MaxTs)}}

FollowersFileLists ==
    {<<b>> : b \in FollowersBuffers} \cup SeqsUpTo(BatchBuffers, MaxFiles)

\* what string_list_data holds in the following export
FollowingStringLists ==
    {Absent, JList(<<>>), JList(<<JInt(1)>>),
     JList(<<Item(Absent, Absent), Item(Absent, JInt(1))>>)}
    \cup NotLists
    \cup {JList(<<Item(Absent, t)>>) : t \in Timestamps}

PlainStringLists ==
    {Absent, JList(<<Item(Absent, Absent), Item(Absent, JInt(1))>>)}
    \cup {JList(<<Item(Absent, t)>>) : t \in PlainTimestamps}

Relationships ==
    {Relationship(v, sl) : v \in {Absent, JInt(7)} \cup {JStr(h) : h \in RawHandles},
                           sl \in FollowingStringLists}

PlainRelationships ==
    {Relationship(v, sl) : v \in {Absent} \cup {JStr(h) : h \in PlainHandles},
                           sl \in PlainStringLists}

FollowingDocs ==
    {JNull, JInt(3), JStr(<<"a">>), JList(<<>>), JList(<<Entry(JList(<<>>))>>),
     JDict(<<>>), FollowingDoc(JList(<<JInt(1)>>)), FollowingDoc(JList(<<JNull>>))}
    \cup {FollowingDoc(v) : v \in NotLists}
    \cup {FollowingDoc(JList(<<r>>)) : r \in Relationships}
    \cup {FollowingDoc(JList(rs)) : rs \in SeqsUpTo(PlainRelationships, MaxEntries)}

FollowingBuffers == {BadUtf8, BadJson} \cup {JsonBytes(d) : d \in FollowingDocs}

\* the exports of the flow: well-formed, of four handles over three keys,
\* with and without timestamps
FlowItems ==
    {Item(JStr(<<"a">>), Absent), Item(JStr(<<"A", " ">>), JInt(1)),
     Item(JStr(<<" ", "b">>), JInt(1)), Item(JStr(<<"a", "b">>), Absent)}

FlowFollowers ==
    {<<JsonBytes(JList(es))>> :
       es \in SeqsUpTo({Entry(JList(<<it>>)) : it \in FlowItems}, MaxEntries)}

FlowRelationships ==
    {Relationship(JStr(<<"a">>), JList(<<Item(Absent, JInt(1))>>)),
     Relationship(JStr(<<"A", " ">>), Absent),
     Relationship(JStr(<<" ", "b">>), JList(<<Item(Absent, Absent)>>)),
     Relationship(JStr(<<"a", "b">>), JList(<<Item(Absent, JInt(1))>>))}

FlowFollowing ==
    {JsonBytes(FollowingDoc(JList(rs))) : rs \in SeqsUpTo(FlowRelationships, MaxEntries)}

\* what the followers uploader and the following uploader hold
SessionFollowersFiles ==
    {<<>>, <<BadJson>>, <<JsonBytes(JList(<<JInt(1)>>))>>, <<JsonBytes(JList(<<>>))>>,
     <<JsonBytes(JList(<<Entry(JList(<<Item(JStr(<<"a">>), JInt(1))>>))>>))>>,
     <<JsonBytes(JList(<<Entry(JList(<<Item(JStr(<<"A", " ">>), Absent),
                                       Item(JStr(<<" ", "b">>), JInt(MaxTs))>>))>>))>>,
     <<BadUtf8, JsonBytes(JList(<<Entry(JList(<<Item(JStr(<<"b">>), Absent)>>))>>))>>}

SessionFollowingFiles ==
    {None, BadJson, JsonBytes(JNull), JsonBytes(FollowingDoc(JList(<<>>))),
     JsonBytes(FollowingDoc(JList(
       <<Relationship(JStr(<<"a">>), JList(<<Item(Absent, JInt(1))>>))>>))),
     JsonBytes(FollowingDoc(JList(
       <<Relationship(JStr(<<"A">>), Absent),
         Relationship(JStr(<<"a", "b">>), JList(<<Item(Absent, JInt(MaxTs))>>))>>))),
     JsonBytes(FollowingDoc(JList(
       <<Relationship(JStr(<<"b">>), JList(<<JInt(1)>>))>>)))}

(***************************************************************************)
(* The state machine: call is the last call made, with its arguments and   *)
(* what it returned or raised.                                             *)
(***************************************************************************)
NoRun == [trigger |-> "none"]

NoCalls == [schedule |-> <<>>]

Init ==
    /\ call = [fn |-> "none"]
    /\ session_state = NoKeys
    /\ run = NoRun
    /\ calls = NoCalls

Idle == call.fn = "none"

\* two identities built from the raw strings a and b, compared, hashed and
\* put into one set; strip says whether the caller strips the raw string
\* first, as the parsers do
CallInstagramUser ==
    /\ Idle
    /\ \E a \in Strings, b \in Strings, strip \in BOOLEAN :
         LET u == InstagramUser(IF strip THEN Strip(a) ELSE a)
             v == InstagramUser(IF strip THEN Strip(b) ELSE b)
         IN call' = [fn |-> "InstagramUser", a |-> a, b |-> b, strip |-> strip,
                     u |-> u, v |-> v, eq |-> UserEq(u, v),
                     hash_u |-> UserHash(u), hash_v |-> UserHash(v),
                     set |-> SetAdd(SetAdd({}, u), v)]
    /\ UNCHANGED <<session_state, run, calls>>

CallAnalyze ==
    /\ Idle
    /\ \E F \in UserSets, G \in UserSets :
         call' = [fn |-> "analyze", followers |-> F, following |-> G,
                  result |-> analyze(F, G), after |-> analyzeOperands(F, G)]
    /\ UNCHANGED <<session_state, run, calls>>

CallGenerateExcel ==
    /\ Idle
    /\ \E F \in UserSets, G \in UserSets :
         call' = [fn |-> "generate_excel", results |-> analyze(F, G),
                  result |-> generate_excel(analyze(F, G))]
    /\ UNCHANGED <<session_state, run, calls>>

CallFullFlow ==
    /\ Idle
    /\ \E files \in FlowFollowers, content \in FlowFollowing,
          with_timestamps \in BOOLEAN :
         call' = [fn |-> "full_flow", files |-> files, content |-> content,
                  with_timestamps |-> with_timestamps,
                  result |-> full_flow(files, content, with_timestamps)]
    /\ UNCHANGED <<session_state, run, calls>>

CallParseFollowers ==
    /\ Idle
    /\ \E files \in FollowersFileLists :
         call' = [fn |-> "parse_followers", files |-> files,
                  result |-> parse_followers(files)]
    /\ UNCHANGED <<session_state, run, calls>>

CallParseFollowersWithTimestamps ==
    /\ Idle
    /\ \E files \in FollowersFileLists :
         call' = [fn |-> "parse_followers_with_timestamps", files |-> files,
                  result |-> parse_followers_with_timestamps(files)]
    /\ UNCHANGED <<session_state, run, calls>>

CallParseFollowing ==
    /\ Idle
    /\ \E content \in FollowingBuffers :
         call' = [fn |-> "parse_following", content |-> content,
                  result |-> parse_following(content)]
    /\ UNCHANGED <<session_state, run, calls>>

CallParseFollowingWithTimestamps ==
    /\ Idle
    /\ \E content \in FollowingBuffers :
         call' = [fn |-> "parse_following_with_timestamps", content |-> content,
                  result |-> parse_following_with_timestamps(content)]
    /\ UNCHANGED <<session_state, run, calls>>

Next ==
    \/ CallInstagramUser
    \/ CallAnalyze
    \/ CallParseFollowers
    \/ CallParseFollowersWithTimestamps
    \/ CallParseFollowing
    \/ CallParseFollowingWithTimestamps
    \/ CallGenerateExcel
    \/ CallFullFlow

Spec == Init /\ [][Next]_vars

(***************************************************************************)
(* The state machine of the session: session_state is st.session_state     *)
(* once a run of main() has ended, run is that run: what set it off, what  *)
(* the uploaders held and what it rendered.                                *)
(***************************************************************************)
Ran(trigger, followers_files, following_file, m) ==
    [trigger |-> trigger, followers_files |-> followers_files,
     following_file |-> following_file, step |-> m.step,
     upload_section |-> m.upload_section, analizar_button |-> m.analizar_button,
     results |-> m.results, analyze |-> m.analyze]

\* the page is opened: the first run, on a session without keys
SessionInit ==
    /\ call = [fn |-> "none"]
    /\ \E m \in {main(NoKeys, <<>>, None, FALSE, FALSE)} :
         /\ session_state = m.session_state
         /\ run = Ran("open", <<>>, None, m)
    /\ calls = NoCalls

\* a file is put into an uploader or taken out of it while the upload
\* section is on the page: the run finds the files of both uploaders
Upload ==
    /\ run.upload_section
    /\ \E followers_files \in SessionFollowersFiles,
          following_file \in SessionFollowingFiles :
         \E m \in {main(session_state, followers_files, following_file, FALSE, FALSE)} :
            /\ session_state' = m.session_state
            /\ run' = Ran("upload", followers_files, following_file, m)
    /\ UNCHANGED <<call, calls>>

\* "Analizar" is pressed where the last run has rendered it; the uploaders
\* hold their files
PressAnalizar ==
    /\ run.analizar_button
    /\ \E followers_files \in SessionFollowersFiles,
          following_file \in SessionFollowingFiles :
         \E m \in {main(session_state, followers_files, following_file, TRUE, FALSE)} :
            /\ session_state' = m.session_state
            /\ run' = Ran("analizar", followers_files, following_file, m)
    /\ UNCHANGED <<call, calls>>

\* "Nuevo analisis" is pressed where the last run has rendered the results
PressNuevoAnalisis ==
    /\ run.results
    /\ \E m \in {main(session_state, <<>>, None, FALSE, TRUE)} :
         /\ session_state' = m.session_state
         /\ run' = Ran("nuevo_analisis", <<>>, None, m)
    /\ UNCHANGED <<call, calls>>

\* any other widget of the results is used: a run without files or buttons
Browse ==
    /\ run.results
    /\ \E m \in {main(session_state, <<>>, None, FALSE, FALSE)} :
         /\ session_state' = m.session_state
         /\ run' = Ran("browse", <<>>, None, m)
    /\ UNCHANGED <<call, calls>>

SessionNext ==
    \/ Upload
    \/ PressAnalizar
    \/ PressNuevoAnalisis
    \/ Browse

SessionSpec == SessionInit /\ [][SessionNext]_vars

(***************************************************************************)
(* Two parser calls in flight: calls holds, per call, its argument, the    *)
(* buffers its loop has still to visit, its frame (the users and the       *)
(* timestamps of its body) and what it has returned, and the order in      *)
(* which the calls have run their iterations.                              *)
(***************************************************************************)
\* the arguments of the two calls: a list of followers buffers for the
\* first, a list of followers buffers or a following buffer for the second
FirstCalls ==
    {[fn |-> "parse_followers_with_timestamps", files |-> files] :
       files \in SeqsUpTo(
         {BadJson, JsonBytes(JList(<<JInt(1)>>)),
          JsonBytes(JList(<<Entry(JList(<<Item(JStr(<<"a">>), JInt(1))>>))>>))},
         MaxFiles)}

SecondCalls ==
    {[fn |-> "parse_followers_with_timestamps", files |-> files] :
       files \in {<<JsonBytes(JList(<<Entry(JList(<<Item(JStr(<<"A">>), JInt(MaxTs))>>))>>))>>,
                  <<BadUtf8,
                    JsonBytes(JList(<<Entry(JList(<<Item(JStr(<<"b">>), Absent)>>))>>))>>}}
    \cup {[fn |-> "parse_following_with_timestamps", content |-> content] :
            content \in {BadJson, JsonBytes(JNull),
                         JsonBytes(FollowingDoc(JList(
                           <<Relationship(JStr(<<"A", "b">>),
                                          JList(<<Item(Absent, JInt(1))>>))>>)))}}

\* what the loop of a call visits: the buffers of files, or the one buffer
\* of the following parser's try block
Visits(c) ==
    IF c.fn = "parse_followers_with_timestamps" THEN c.files ELSE <<c.content>>

\* one iteration: the body of "for content in files", or the try block of
\* the following parser
Iteration(c, st, content) ==
    IF c.fn = "parse_followers_with_timestamps" THEN FollowersFileTs(st, content)
    ELSE Except(FollowingBodyTs(st, content))

\* the frame of a call, as a bug would have it: users and timestamps are
\* module-level objects that every call fills
FrameShared(i) == 1

\* the frame in which call i keeps its users and its timestamps: its own,
\* made by "users = set()" and "timestamps = {}" when the call begins
Frame(i) == i

NotReturned == [exc |-> "running"]

CallsInit ==
    /\ call = [fn |-> "none"]
    /\ session_state = NoKeys
    /\ run = NoRun
    /\ \E c1 \in FirstCalls, c2 \in SecondCalls :
         calls = [args |-> <<c1, c2>>,
                  pending |-> <<Visits(c1), Visits(c2)>>,
                  frames |-> <<Start, Start>>,
                  returned |-> <<NotReturned, NotReturned>>,
                  schedule |-> <<>>]

\* call i runs the next iteration of its loop
RunIteration(i) ==
    /\ calls.returned[i] = NotReturned
    /\ calls.pending[i] # <<>>
    /\ calls.frames[Frame(i)].exc = "none"
    /\ calls' = [calls EXCEPT
                   !.frames[Frame(i)] =
                       Iteration(calls.args[i], @, Head(calls.pending[i])),
                   !.pending[i] = Tail(@),
                   !.schedule = Append(@, i)]
    /\ UNCHANGED <<call, session_state, run>>

\* call i leaves its loop, by its end or by an exception, and returns
ReturnFrom(i) ==
    /\ calls.returned[i] = NotReturned
    /\ calls.pending[i] = <<>> \/ calls.frames[Frame(i)].exc # "none"
    /\ calls' = [calls EXCEPT !.returned[i] = ReturnBoth(calls.frames[Frame(i)])]
    /\ UNCHANGED <<call, session_state, run>>

IterateCall == \E i \in 1..2 : RunIteration(i)

ReturnCall == \E i \in 1..2 : ReturnFrom(i)

CallsNext ==
    \/ IterateCall
    \/ ReturnCall

CallsSpec == CallsInit /\ [][CallsNext]_vars

TypeOK == call.fn \in {"none", "InstagramUser", "analyze", "parse_followers",
                       "parse_followers_with_timestamps", "parse_following",
                       "parse_following_with_timestamps", "generate_excel",
                       "full_flow"}

(***************************************************************************)
(* Vocabulary of the properties.                                           *)
(***************************************************************************)
\* the canonical keys of a set of identities
Keys(S) == {Lower(u.username) : u \in S}

\* a and b hold no two members that are __eq__
Disjoint(a, b) == \A u \in a, v \in b : ~UserEq(u, v)

\* a | b of two sets: the members of a, and those of b that a lacks
RECURSIVE SetOr(_, _)
SetOr(a, b) ==
    IF b = {} THEN a
    ELSE LET u == CHOOSE x \in b : TRUE IN SetOr(SetAdd(a, u), b \ {u})

\* a == b of two sets: as many members, each of a contained in b
SetEquals(a, b) ==
    /\ Cardinality(a) = Cardinality(b)
    /\ \A u \in a : SetContains(b, u)

\* the same letters in the same places, whatever their case
CasePairs == {{"a", "A"}, {"b", "B"}}
SameIgnoringCase(s, t) ==
    /\ Len(s) = Len(t)
    /\ \A i \in 1..Len(s) : s[i] = t[i] \/ {s[i], t[i]} \in CasePairs

(***************************************************************************)
(* analyze                                                                 *)
(***************************************************************************)
\* C1: analyze(F, G) returns mutual = F & G, not_following_back = G - F and
\* not_followed_by_me = F - G, membership being decided by the lower-cased
\* username, each result set holding one member of its source set per key,
\* with total_followers = |F| and total_following = |G|; analyze of two
\* empty sets returns three empty sets and two zeros.
C1_AnalyzeSets ==
    call.fn = "analyze" =>
        LET F == call.followers
            G == call.following
            r == call.result
        IN /\ Keys(r.mutual) = Keys(F) \cap Keys(G)
           /\ Keys(r.not_following_back) = Keys(G) \ Keys(F)
           /\ Keys(r.not_followed_by_me) = Keys(F) \ Keys(G)
           /\ r.mutual \subseteq F \cup G
           /\ r.not_following_back \subseteq G
           /\ r.not_followed_by_me \subseteq F
           /\ Cardinality(r.mutual) = Cardinality(Keys(r.mutual))
           /\ r.total_followers = Cardinality(F)
           /\ r.total_following = Cardinality(G)
           /\ (F = {} /\ G = {} =>
                 /\ r.mutual = {} /\ r.not_following_back = {}
                 /\ r.not_followed_by_me = {}
                 /\ r.total_followers = 0 /\ r.total_following = 0)

\* analyze has run on two sets that share a key under different spellings
\* and that each hold a key the other lacks
C1_Witness ==
    /\ call.fn = "analyze"
    /\ \E u \in call.followers, v \in call.following : u # v /\ UserEq(u, v)
    /\ call.result.mutual # {}
    /\ call.result.not_following_back # {}
    /\ call.result.not_followed_by_me # {}

\* C2: the three sets of every analyze result are pairwise disjoint, mutual
\* | not_following_back equals the following set and mutual |
\* not_followed_by_me equals the followers set (set equality of Python).
C2_Partition ==
    call.fn = "analyze" =>
        LET r == call.result
        IN /\ Disjoint(r.mutual, r.not_following_back)
           /\ Disjoint(r.mutual, r.not_followed_by_me)
           /\ Disjoint(r.not_following_back, r.not_followed_by_me)
           /\ SetEquals(SetOr(r.mutual, r.not_following_back), call.following)
           /\ SetEquals(SetOr(r.mutual, r.not_followed_by_me), call.followers)

\* analyze has run and all three result sets have members
C2_Witness ==
    /\ call.fn = "analyze"
    /\ Cardinality(call.result.mutual) >= 2
    /\ call.result.not_following_back # {}
    /\ call.result.not_followed_by_me # {}

(***************************************************************************)
(* InstagramUser                                                           *)
(***************************************************************************)
\* C3: two InstagramUser values are == exactly when their usernames are
\* the same up to the case of the letters, and values that are == have
\* the same hash.
C3_EqIffSameKey ==
    call.fn = "InstagramUser" =>
        /\ call.eq <=> SameIgnoringCase(call.u.username, call.v.username)
        /\ call.eq => call.hash_u = call.hash_v

\* two identities spelled differently were found equal
C3_Witness ==
    /\ call.fn = "InstagramUser"
    /\ call.u.username # call.v.username
    /\ call.u.username # <<>>
    /\ call.eq
    /\ call.hash_u = call.hash_v

\* C4 as claimed: whenever a and b are equal after trimming and
\* lower-casing, the identities built from them are equal, hash alike and
\* make one member of a set.
C4_AsClaimed ==
    (call.fn = "InstagramUser" /\ Lower(Strip(call.a)) = Lower(Strip(call.b))) =>
        /\ call.eq
        /\ call.hash_u = call.hash_v
        /\ Cardinality(call.set) = 1

\* C4, amended: whenever a and b are equal after trimming and lower-casing,
\* the identities built from the stripped strings, InstagramUser(a.strip())
\* and InstagramUser(b.strip()) as the parsers build them, are equal, hash
\* alike and make one member of a set; InstagramUser itself does not trim.
C4_StrippedIdentities ==
    (/\ call.fn = "InstagramUser"
     /\ call.strip
     /\ SameIgnoringCase(Strip(call.a), Strip(call.b))) =>
        /\ call.eq
        /\ call.hash_u = call.hash_v
        /\ Cardinality(call.set) = 1
        /\ call.set = {call.u}

\* two raw strings that differ in case and in padding were stripped and
\* built into identities
C4_Witness ==
    /\ call.fn = "InstagramUser"
    /\ call.strip
    /\ call.a # call.b
    /\ Strip(call.a) # call.a
    /\ Strip(call.a) # Strip(call.b)
    /\ Strip(call.a) # <<>>
    /\ SameIgnoringCase(Strip(call.a), Strip(call.b))
    /\ Cardinality(call.set) = 1

(***************************************************************************)
(* The followers parsers                                                   *)
(***************************************************************************)
\* the entries of a buffer that holds a JSON array, the items of an entry
\* that holds a list under string_list_data, and what an item carries
EntriesOf(content) ==
    IF content.b = "json" /\ IsList(content.v) THEN content.v.l ELSE <<>>

ItemsOf(entry) ==
    IF IsDict(entry) /\ IsList(DictGet(entry, "string_list_data", JList(<<>>)))
    THEN DictGet(entry, "string_list_data", JList(<<>>)).l
    ELSE <<>>

HasField(item, key) == IsDict(item) /\ \E i \in 1..Len(item.d) : item.d[i][1] = key

CarriesValue(item) ==
    /\ HasField(item, "value")
    /\ IsStr(DictGet(item, "value", JNull))
    /\ DictGet(item, "value", JNull).s # <<>>

HandleOf(item) == Strip(DictGet(item, "value", JNull).s)

\* the places <<file, entry, item>> of the items of a list of followers
\* buffers, the item at a place, and the order the parser visits them in
Places(files) ==
    UNION {UNION {{<<f, e, i>> : i \in 1..Len(ItemsOf(EntriesOf(files[f])[e]))} :
                    e \in 1..Len(EntriesOf(files[f]))} :
             f \in 1..Len(files)}

ItemAt(files, p) == ItemsOf(EntriesOf(files[p[1]])[p[2]])[p[3]]

Before(p, q) ==
    \/ p[1] < q[1]
    \/ p[1] = q[1] /\ p[2] < q[2]
    \/ p[1] = q[1] /\ p[2] = q[2] /\ p[3] < q[3]

ValuePlaces(files) == {p \in Places(files) : CarriesValue(ItemAt(files, p))}

KeyPlaces(files, key) ==
    {p \in ValuePlaces(files) : Lower(HandleOf(ItemAt(files, p))) = key}

OccurringKeys(files) ==
    {Lower(HandleOf(ItemAt(files, p))) : p \in ValuePlaces(files)}

First(P) == CHOOSE p \in P : \A q \in P : q = p \/ Before(p, q)
Last(P) == CHOOSE p \in P : \A q \in P : q = p \/ Before(q, p)

\* a followers buffer of the expected shape: an array of objects, each with
\* no string_list_data or a list of objects under it, each of those with no
\* value or a string, and no timestamp or an integer
WellFormedItem(item) ==
    /\ IsDict(item)
    /\ HasField(item, "value") => IsStr(DictGet(item, "value", JNull))
    /\ HasField(item, "timestamp") => IsInt(DictGet(item, "timestamp", JNull))

WellFormedEntry(entry) ==
    /\ IsDict(entry)
    /\ IsList(DictGet(entry, "string_list_data", JList(<<>>)))
    /\ \A i \in 1..Len(ItemsOf(entry)) : WellFormedItem(ItemsOf(entry)[i])

WellFormedFollowers(content) ==
    /\ content.b = "json"
    /\ IsList(content.v)
    /\ \A e \in 1..Len(content.v.l) : WellFormedEntry(content.v.l[e])

AllWellFormed(files) == \A f \in 1..Len(files) : WellFormedFollowers(files[f])

\* the set the followers parser is to return: per canonical key, the
\* stripped value of the first item that carries the key
ExpectedUsers(files) ==
    {InstagramUser(HandleOf(ItemAt(files, First(KeyPlaces(files, key))))) :
        key \in OccurringKeys(files)}

\* the places of a key whose item has a timestamp / a timestamp other than 0
StampedPlaces(files, key) ==
    {p \in KeyPlaces(files, key) : HasField(ItemAt(files, p), "timestamp")}

NonZeroPlaces(files, key) ==
    {p \in StampedPlaces(files, key) :
        DictGet(ItemAt(files, p), "timestamp", JNull) # JInt(0)}

\* C5 as claimed: for well-formed buffers parse_followers_with_timestamps
\* returns the identities of the trimmed values of the items that carry a
\* non-empty value, and a map that takes the lower-cased trimmed value of
\* every such item that has a timestamp to that item's timestamp; no
\* buffers, or empty arrays, give an empty set and an empty map.
C5_AsClaimed ==
    (call.fn = "parse_followers_with_timestamps" /\ AllWellFormed(call.files)) =>
        /\ call.result.exc = "none"
        /\ call.result.users = ExpectedUsers(call.files)
        /\ \A p \in ValuePlaces(call.files) :
             HasField(ItemAt(call.files, p), "timestamp") =>
               /\ Lower(HandleOf(ItemAt(call.files, p))) \in DOMAIN call.result.timestamps
               /\ call.result.timestamps[Lower(HandleOf(ItemAt(call.files, p)))]
                    = DictGet(ItemAt(call.files, p), "timestamp", JNull)
        /\ Places(call.files) = {} =>
             call.result.users = {} /\ DOMAIN call.result.timestamps = {}

\* C5, amended: for well-formed buffers parse_followers_with_timestamps
\* returns the identities of the trimmed values of the items that carry a
\* non-empty value (one per lower-cased value, spelled as its first item),
\* and a map whose keys are the lower-cased trimmed values that some item
\* carries with a timestamp other than 0, each mapped to the timestamp of
\* the last such item in buffer, entry and item order; no buffers, or empty
\* arrays, give an empty set and an empty map.
C5_FollowersParsed ==
    (call.fn = "parse_followers_with_timestamps" /\ AllWellFormed(call.files)) =>
        /\ call.result.exc = "none"
        /\ call.result.users = ExpectedUsers(call.files)
        /\ DOMAIN call.result.timestamps =
             {key \in OccurringKeys(call.files) : NonZeroPlaces(call.files, key) # {}}
        /\ \A key \in DOMAIN call.result.timestamps :
             call.result.timestamps[key] =
               DictGet(ItemAt(call.files, Last(NonZeroPlaces(call.files, key))),
                       "timestamp", JNull)
        /\ Places(call.files) = {} =>
             call.result.users = {} /\ DOMAIN call.result.timestamps = {}

\* well-formed buffers were parsed whose items carry one key under two
\* spellings, one of them padded, with and without timestamps
C5_Witness ==
    /\ call.fn = "parse_followers_with_timestamps"
    /\ AllWellFormed(call.files)
    /\ call.result.exc = "none"
    /\ \E p, q \in ValuePlaces(call.files) :
         /\ Before(p, q)
         /\ HandleOf(ItemAt(call.files, p)) # HandleOf(ItemAt(call.files, q))
         /\ HandleOf(ItemAt(call.files, p)) # DictGet(ItemAt(call.files, p), "value", JNull).s
         /\ Lower(HandleOf(ItemAt(call.files, p))) = Lower(HandleOf(ItemAt(call.files, q)))
         /\ HasField(ItemAt(call.files, p), "timestamp")
         /\ ~HasField(ItemAt(call.files, q), "timestamp")
    /\ Cardinality(call.result.users) = 1
    /\ DOMAIN call.result.timestamps # {}

\* C6: the set parse_followers returns has exactly one member per canonical
\* key that occurs in any of the buffers, and parsing a list of buffers
\* followed by a copy of itself gives what parsing the list once gives.
C6_DeduplicatedAcrossBuffers ==
    call.fn = "parse_followers" =>
        /\ call.result.exc = "none" =>
             /\ Keys(call.result.users) = OccurringKeys(call.files)
             /\ Cardinality(call.result.users) = Cardinality(OccurringKeys(call.files))
        /\ parse_followers(call.files \o call.files) = call.result

\* two buffers were parsed that hold one key under two spellings, and a
\* set came back
C6_Witness ==
    /\ call.fn = "parse_followers"
    /\ call.result.exc = "none"
    /\ \E p, q \in ValuePlaces(call.files) :
         /\ p[1] # q[1]
         /\ HandleOf(ItemAt(call.files, p)) # HandleOf(ItemAt(call.files, q))
         /\ Lower(HandleOf(ItemAt(call.files, p))) = Lower(HandleOf(ItemAt(call.files, q)))
    /\ Cardinality(call.result.users) = 1

\* C7 as claimed: parse_followers and parse_followers_with_timestamps
\* never raise, whatever the buffers hold.
C7_FollowersNeverRaise ==
    call.fn \in {"parse_followers", "parse_followers_with_timestamps"} =>
        call.result.exc = "none"

\* a buffer the followers parsers skip: not UTF-8, not JSON, or JSON whose
\* top-level value is not an array
Skipped(content) == content.b # "json" \/ ~IsList(content.v)

Kept(files) == SelectSeq(files, LAMBDA content : ~Skipped(content))

\* C8: the followers parsers give, for a list of buffers, what they give
\* for the list without its buffers that are not UTF-8, not JSON or not a
\* JSON array: such a buffer adds nothing and does not end the batch.
C8_BadBuffersSkipped ==
    /\ call.fn = "parse_followers" =>
         call.result = parse_followers(Kept(call.files))
    /\ call.fn = "parse_followers_with_timestamps" =>
         call.result = parse_followers_with_timestamps(Kept(call.files))

\* a skipped buffer came first in a batch, and the buffer after it gave a
\* user and a timestamp
C8_Witness ==
    /\ call.fn = "parse_followers_with_timestamps"
    /\ Len(call.files) >= 2
    /\ Skipped(call.files[1])
    /\ call.result.exc = "none"
    /\ call.result.users # {}
    /\ DOMAIN call.result.timestamps # {}

(***************************************************************************)
(* The following parsers                                                   *)
(***************************************************************************)
\* a following buffer of one of the kinds the parsers are to answer with
\* nothing: not UTF-8, not JSON, not a JSON object, or an object whose
\* relationships_following is not a list
Malformed(content) ==
    \/ content.b # "json"
    \/ ~IsDict(content.v)
    \/ ~IsList(DictGet(content.v, "relationships_following", JList(<<>>)))

\* C9 as claimed: for a buffer that is not UTF-8, not JSON, not a JSON
\* object, or whose relationships_following is not a list, parse_following
\* returns the empty set and parse_following_with_timestamps the empty set
\* and the empty map, and neither raises.
C9_FollowingTolerant ==
    /\ (call.fn = "parse_following" /\ Malformed(call.content)) =>
         call.result = [exc |-> "none", users |-> {}]
    /\ (call.fn = "parse_following_with_timestamps" /\ Malformed(call.content)) =>
         call.result = [exc |-> "none", users |-> {}, timestamps |-> EmptyMap]

\* the relationship entries of a following buffer
RelationshipsOf(content) == DictGet(content.v, "relationships_following", JList(<<>>)).l

CarriesTitle(entry) ==
    /\ HasField(entry, "title")
    /\ IsStr(DictGet(entry, "title", JNull))
    /\ DictGet(entry, "title", JNull).s # <<>>

TitleOf(entry) == Strip(DictGet(entry, "title", JNull).s)

\* a following buffer of the expected shape: an object whose
\* relationships_following is a list of objects, each with no title or a
\* string, and no string_list_data or a list of objects under it, each of
\* those with no timestamp or an integer
WellFormedRelationship(entry) ==
    /\ IsDict(entry)
    /\ HasField(entry, "title") => IsStr(DictGet(entry, "title", JNull))
    /\ IsList(DictGet(entry, "string_list_data", JList(<<>>)))
    /\ \A i \in 1..Len(ItemsOf(entry)) : WellFormedItem(ItemsOf(entry)[i])

WellFormedFollowing(content) ==
    /\ content.b = "json"
    /\ IsDict(content.v)
    /\ HasField(content.v, "relationships_following")
    /\ IsList(DictGet(content.v, "relationships_following", JNull))
    /\ \A e \in 1..Len(RelationshipsOf(content)) :
         WellFormedRelationship(RelationshipsOf(content)[e])

TitledEntries(content) ==
    {e \in 1..Len(RelationshipsOf(content)) : CarriesTitle(RelationshipsOf(content)[e])}

TitleKeys(content) ==
    {Lower(TitleOf(RelationshipsOf(content)[e])) : e \in TitledEntries(content)}

\* per canonical key, the stripped title of the first entry that carries it
ExpectedFollowing(content) ==
    {InstagramUser(TitleOf(RelationshipsOf(content)[
        CHOOSE e \in TitledEntries(content) :
          /\ Lower(TitleOf(RelationshipsOf(content)[e])) = key
          /\ \A d \in TitledEntries(content) :
               Lower(TitleOf(RelationshipsOf(content)[d])) = key => e <= d])) :
        key \in TitleKeys(content)}

\* C10: for a well-formed following object both following parsers return
\* the identities of the trimmed titles of the entries that carry a
\* non-empty title (one per lower-cased title, spelled as its first entry);
\* an entry without a title adds no identity and no timestamp: every key of
\* the timestamp map is the key of an entry that carries a title.
C10_FollowingParsed ==
    /\ (call.fn = "parse_following" /\ WellFormedFollowing(call.content)) =>
         /\ call.result.exc = "none"
         /\ call.result.users = ExpectedFollowing(call.content)
    /\ (call.fn = "parse_following_with_timestamps"
          /\ WellFormedFollowing(call.content)) =>
         /\ call.result.exc = "none"
         /\ call.result.users = ExpectedFollowing(call.content)
         /\ DOMAIN call.result.timestamps \subseteq TitleKeys(call.content)
         /\ \A key \in DOMAIN call.result.timestamps :
              \E e \in TitledEntries(call.content) :
                /\ Lower(TitleOf(RelationshipsOf(call.content)[e])) = key
                /\ ItemsOf(RelationshipsOf(call.content)[e]) # <<>>
                /\ call.result.timestamps[key] =
                     DictGet(ItemsOf(RelationshipsOf(call.content)[e])[1],
                             "timestamp", JNull)

\* a well-formed following object was parsed that holds an entry with a
\* timestamp and no title next to an entry with a padded title
C10_Witness ==
    /\ call.fn = "parse_following_with_timestamps"
    /\ WellFormedFollowing(call.content)
    /\ \E e \in 1..Len(RelationshipsOf(call.content)) :
         /\ ~HasField(RelationshipsOf(call.content)[e], "title")
         /\ ItemsOf(RelationshipsOf(call.content)[e]) # <<>>
         /\ HasField(ItemsOf(RelationshipsOf(call.content)[e])[1], "timestamp")
    /\ \E e \in TitledEntries(call.content) :
         TitleOf(RelationshipsOf(call.content)[e])
           # DictGet(RelationshipsOf(call.content)[e], "title", JNull).s
    /\ Cardinality(call.result.users) = 1

(***************************************************************************)
(* Timestamps of the following parser                                      *)
(***************************************************************************)
\* a following buffer the entry loop runs over: a JSON object whose
\* relationships_following is a list
Readable(content) == ~Malformed(content)

\* the first element of the entry's string_list_data is absent or has no
\* timestamp field
NoFirstTimestamp(entry) ==
    \/ ItemsOf(entry) = <<>>
    \/ ~HasField(ItemsOf(entry)[1], "timestamp")

\* a later element of the entry's string_list_data has a timestamp
LaterTimestamp(entry) ==
    \E i \in 2..Len(ItemsOf(entry)) :
      /\ IsDict(ItemsOf(entry)[i])
      /\ Truthy(DictGet(ItemsOf(entry)[i], "timestamp", JNull))

\* the titled entries whose first element has a timestamp other than zero
StampedEntries(content) ==
    {e \in TitledEntries(content) :
       /\ ItemsOf(RelationshipsOf(content)[e]) # <<>>
       /\ IsDict(ItemsOf(RelationshipsOf(content)[e])[1])
       /\ Truthy(DictGet(ItemsOf(RelationshipsOf(content)[e])[1],
                         "timestamp", JNull))}

EntryKey(content, e) == Lower(TitleOf(RelationshipsOf(content)[e]))

\* C11 as claimed: when parse_following_with_timestamps returns, the key
\* of every titled entry whose first string_list_data element is absent or
\* has no timestamp is missing from the timestamp map.
C11_AsClaimed ==
    (call.fn = "parse_following_with_timestamps" /\ Readable(call.content)
       /\ call.result.exc = "none") =>
      \A e \in TitledEntries(call.content) :
        NoFirstTimestamp(RelationshipsOf(call.content)[e]) =>
          EntryKey(call.content, e) \notin DOMAIN call.result.timestamps

\* C11: when parse_following_with_timestamps returns, the keys of the
\* timestamp map are the keys of the titled entries whose first
\* string_list_data element has a timestamp other than zero, each mapped to
\* the first element's timestamp of the last such entry; an entry whose
\* first element is absent or has no timestamp records nothing, whatever
\* its later elements hold, so that its key is in the map only when another
\* entry of the same key records it.
C11_FirstElementOnly ==
    (call.fn = "parse_following_with_timestamps" /\ Readable(call.content)
       /\ call.result.exc = "none") =>
      /\ DOMAIN call.result.timestamps =
           {EntryKey(call.content, e) : e \in StampedEntries(call.content)}
      /\ \A e \in StampedEntries(call.content) :
           (\A d \in StampedEntries(call.content) :
              EntryKey(call.content, d) = EntryKey(call.content, e) => d <= e) =>
             call.result.timestamps[EntryKey(call.content, e)] =
               DictGet(ItemsOf(RelationshipsOf(call.content)[e])[1],
                       "timestamp", JNull)

\* the parser returned for a titled entry whose first element has no
\* timestamp while a later one has, and the entry's key is not in the map
C11_Witness ==
    /\ call.fn = "parse_following_with_timestamps"
    /\ Readable(call.content)
    /\ call.result.exc = "none"
    /\ \E e \in TitledEntries(call.content) :
         /\ NoFirstTimestamp(RelationshipsOf(call.content)[e])
         /\ LaterTimestamp(RelationshipsOf(call.content)[e])
         /\ EntryKey(call.content, e) \notin DOMAIN call.result.timestamps

(***************************************************************************)
(* Items of the followers parser that lack a field                         *)
(***************************************************************************)
\* the pairs of a JSON object with the value under key replaced
SetField(d, key, v) ==
    JDict([i \in 1..Len(d.d) |-> IF d.d[i][1] = key THEN <<key, v>> ELSE d.d[i]])

\* a sequence without its i-th element
Remove(seq, i) == SubSeq(seq, 1, i - 1) \o SubSeq(seq, i + 1, Len(seq))

\* the buffers files with the item at place p taken out of its list
Without(files, p) ==
    LET entries == EntriesOf(files[p[1]])
        entry == entries[p[2]]
        shorter == SetField(entry, "string_list_data",
                            JList(Remove(ItemsOf(entry), p[3])))
    IN [files EXCEPT ![p[1]] = JsonBytes(JList([entries EXCEPT ![p[2]] = shorter]))]

\* an item that is an object without the field
Lacks(item, key) == IsDict(item) /\ ~HasField(item, key)

\* C12: in both followers parsers an item without a value is skipped
\* entirely: the call returns or raises what it does on the same buffers
\* with the item taken out; an item that carries a value and no timestamp
\* adds its identity to the set and nothing to the timestamp map: when the
\* call returns, the set holds the identity, and the map is the map of the
\* same buffers with the item taken out.
C12_ItemsLackingAField ==
    /\ call.fn = "parse_followers" =>
         \A p \in Places(call.files) :
           /\ Lacks(ItemAt(call.files, p), "value") =>
                call.result = parse_followers(Without(call.files, p))
           /\ (CarriesValue(ItemAt(call.files, p))
                 /\ Lacks(ItemAt(call.files, p), "timestamp")
                 /\ call.result.exc = "none") =>
                SetContains(call.result.users,
                            InstagramUser(HandleOf(ItemAt(call.files, p))))
    /\ call.fn = "parse_followers_with_timestamps" =>
         \A p \in Places(call.files) :
           /\ Lacks(ItemAt(call.files, p), "value") =>
                call.result = parse_followers_with_timestamps(Without(call.files, p))
           /\ (CarriesValue(ItemAt(call.files, p))
                 /\ Lacks(ItemAt(call.files, p), "timestamp")
                 /\ call.result.exc = "none") =>
                /\ SetContains(call.result.users,
                               InstagramUser(HandleOf(ItemAt(call.files, p))))
                /\ parse_followers_with_timestamps(Without(call.files, p)).exc = "none"
                /\ call.result.timestamps =
                     parse_followers_with_timestamps(Without(call.files, p)).timestamps

\* the timestamps parser returned for a list that holds an item with a
\* timestamp and no value before an item with a value and no timestamp:
\* one identity, no key
C12_Witness ==
    /\ call.fn = "parse_followers_with_timestamps"
    /\ call.result.exc = "none"
    /\ \E p, q \in Places(call.files) :
         /\ Lacks(ItemAt(call.files, p), "value")
         /\ HasField(ItemAt(call.files, p), "timestamp")
         /\ CarriesValue(ItemAt(call.files, q))
         /\ Lacks(ItemAt(call.files, q), "timestamp")
         /\ call.result.users = {InstagramUser(HandleOf(ItemAt(call.files, q)))}
    /\ call.result.timestamps = EmptyMap

(***************************************************************************)
(* Zero timestamps                                                         *)
(***************************************************************************)
\* C13: the timestamp map that parse_followers_with_timestamps or
\* parse_following_with_timestamps returns never maps a key to zero, nor to
\* None: a timestamp that is not known is a key that the map lacks.
C13_NoZeroTimestamp ==
    (call.fn \in {"parse_followers_with_timestamps", "parse_following_with_timestamps"}
       /\ call.result.exc = "none") =>
      \A key \in DOMAIN call.result.timestamps :
        /\ call.result.timestamps[key] # JInt(0)
        /\ call.result.timestamps[key] # JNull

\* the followers parser returned a map with a key for buffers in which
\* another item carries a value and the timestamp 0
C13_Witness ==
    /\ call.fn = "parse_followers_with_timestamps"
    /\ call.result.exc = "none"
    /\ DOMAIN call.result.timestamps # {}
    /\ \E p \in ValuePlaces(call.files) :
         /\ DictGet(ItemAt(call.files, p), "timestamp", JNull) = JInt(0)
         /\ Lower(HandleOf(ItemAt(call.files, p))) \notin DOMAIN call.result.timestamps

(***************************************************************************)
(* Handles of the parsed identities                                        *)
(***************************************************************************)
Parsers == {"parse_followers", "parse_followers_with_timestamps",
            "parse_following", "parse_following_with_timestamps"}

\* C14 as claimed: every identity in the set that any of the four parsers
\* returns has a handle that is non-empty after trimming.
C14_HandlesNonEmpty ==
    (call.fn \in Parsers /\ call.result.exc = "none") =>
      \A u \in call.result.users : Strip(u.username) # <<>>

(***************************************************************************)
(* The set-only and the timestamps variant of a parser                     *)
(***************************************************************************)
\* two results of the variants of one parser on one input: both raise, or
\* both return and return the same set
SameSet(r, s) ==
    /\ (r.exc = "none") <=> (s.exc = "none")
    /\ r.exc = "none" => r.users = s.users

\* C15 as claimed: on every input parse_followers returns the set that
\* parse_followers_with_timestamps returns as its first component, and so
\* does parse_following with parse_following_with_timestamps, and where one
\* variant raises so does the other.
C15_VariantsAgree ==
    /\ call.fn = "parse_followers" =>
         SameSet(call.result, parse_followers_with_timestamps(call.files))
    /\ call.fn = "parse_followers_with_timestamps" =>
         SameSet(call.result, parse_followers(call.files))
    /\ call.fn = "parse_following" =>
         SameSet(call.result, parse_following_with_timestamps(call.content))
    /\ call.fn = "parse_following_with_timestamps" =>
         SameSet(call.result, parse_following(call.content))

(***************************************************************************)
(* Parse, then analyze                                                     *)
(***************************************************************************)
\* C16: for well-formed followers buffers and a well-formed following
\* buffer, parsing and then analysing classifies by canonical key (the
\* lower-cased trimmed value or title): the keys of mutual are the keys
\* that occur in both exports, those of not_following_back the keys of the
\* following export alone, those of not_followed_by_me the keys of the
\* followers export alone, each category holds one member per key, and the
\* totals are the numbers of distinct keys of the two exports.
C16_EndToEnd ==
    (call.fn = "full_flow" /\ AllWellFormed(call.files)
       /\ WellFormedFollowing(call.content)) =>
      /\ call.result.exc = "none"
      /\ LET r == call.result.results
             FK == OccurringKeys(call.files)
             GK == TitleKeys(call.content)
         IN /\ Keys(r.mutual) = FK \cap GK
            /\ Keys(r.not_following_back) = GK \ FK
            /\ Keys(r.not_followed_by_me) = FK \ GK
            /\ Cardinality(r.mutual) = Cardinality(FK \cap GK)
            /\ Cardinality(r.not_following_back) = Cardinality(GK \ FK)
            /\ Cardinality(r.not_followed_by_me) = Cardinality(FK \ GK)
            /\ r.total_followers = Cardinality(FK)
            /\ r.total_following = Cardinality(GK)

\* the flow has run on exports that share a key under two spellings and
\* hold a key each that the other lacks
C16_Witness ==
    /\ call.fn = "full_flow"
    /\ call.with_timestamps
    /\ call.result.exc = "none"
    /\ call.result.results.mutual # {}
    /\ call.result.results.not_following_back # {}
    /\ call.result.results.not_followed_by_me # {}
    /\ \E u \in call.result.followers, v \in call.result.following :
         UserEq(u, v) /\ u # v

(***************************************************************************)
(* Timestamps and identity                                                 *)
(***************************************************************************)
\* an item, an entry and the exports with every timestamp field taken out
EraseItem(item) ==
    IF IsDict(item) THEN JDict(SelectSeq(item.d, LAMBDA p : p[1] # "timestamp"))
    ELSE item

EraseEntry(entry) ==
    IF ItemsOf(entry) = <<>> THEN entry
    ELSE SetField(entry, "string_list_data",
                  JList([i \in 1..Len(ItemsOf(entry)) |-> EraseItem(ItemsOf(entry)[i])]))

EraseFollowers(files) ==
    [f \in 1..Len(files) |->
       IF EntriesOf(files[f]) = <<>> THEN files[f]
       ELSE JsonBytes(JList([e \in 1..Len(EntriesOf(files[f])) |->
                               EraseEntry(EntriesOf(files[f])[e])]))]

EraseFollowing(content) ==
    IF Malformed(content) THEN content
    ELSE JsonBytes(SetField(content.v, "relationships_following",
                     JList([e \in 1..Len(RelationshipsOf(content)) |->
                              EraseEntry(RelationshipsOf(content)[e])])))

\* two results of one parser: the same exception, or the same set
SameUsers(r, s) ==
    /\ r.exc = s.exc
    /\ r.exc = "none" => r.users = s.users

\* C17: timestamps have no part in identity or analysis: each parser
\* returns the set (or raises the exception) that it returns on the same
\* input with every timestamp field taken out, and the flow returns the
\* same two sets and the same analyze result on the exports with every
\* timestamp field taken out; two inputs that differ in their timestamp
\* fields alone thus give the same sets and the same analysis.
C17_TimestampsIrrelevant ==
    /\ call.fn = "parse_followers" =>
         SameUsers(call.result, parse_followers(EraseFollowers(call.files)))
    /\ call.fn = "parse_followers_with_timestamps" =>
         SameUsers(call.result,
                   parse_followers_with_timestamps(EraseFollowers(call.files)))
    /\ call.fn = "parse_following" =>
         SameUsers(call.result, parse_following(EraseFollowing(call.content)))
    /\ call.fn = "parse_following_with_timestamps" =>
         SameUsers(call.result,
                   parse_following_with_timestamps(EraseFollowing(call.content)))
    /\ call.fn = "full_flow" =>
         LET erased == full_flow(EraseFollowers(call.files),
                                 EraseFollowing(call.content),
                                 call.with_timestamps)
         IN /\ erased.exc = call.result.exc
            /\ call.result.exc = "none" =>
                 /\ erased.followers = call.result.followers
                 /\ erased.following = call.result.following
                 /\ erased.results = call.result.results

\* the flow has run with the timestamps parsers on two exports that hold
\* timestamps, and found a mutual member
C17_Witness ==
    /\ call.fn = "full_flow"
    /\ call.with_timestamps
    /\ EraseFollowers(call.files) # call.files
    /\ EraseFollowing(call.content) # call.content
    /\ call.result.exc = "none"
    /\ call.result.results.mutual # {}
    /\ call.result.results.not_following_back # {}

C19_SummarySheet ==
    /\ call.fn = "generate_excel" =>
         LET rows == call.result[1].rows
             r == call.results
         IN /\ call.result[1].name = Resumen
            /\ Len(rows) = 5
            /\ [i \in 1..5 |-> rows[i][1]] =
                 <<"Total Seguidores", "Total Seguidos", "No te siguen de vuelta",
                   "No sigues de vuelta", "Seguidores mutuos">>
            /\ [i \in 1..5 |-> rows[i][2]] =
                 <<r.total_followers, r.total_following,
                   Cardinality(r.not_following_back),
                   Cardinality(r.not_followed_by_me), Cardinality(r.mutual)>>
    /\ (call.fn = "full_flow" /\ call.result.exc = "none") =>
         LET rows == call.result.excel_data[1].rows
             FK == OccurringKeys(call.files)
             GK == TitleKeys(call.content)
         IN [i \in 1..Len(rows) |-> rows[i][2]] =
              <<Cardinality(FK), Cardinality(GK), Cardinality(GK \ FK),
                Cardinality(FK \ GK), Cardinality(FK \cap GK)>>

\* a workbook was written for a result whose five values tell the rows
\* apart: more followers than following, and fewer not following back than
\* not followed back
C19_Witness ==
    /\ call.fn = "generate_excel"
    /\ call.results.total_followers > call.results.total_following
    /\ call.results.mutual # {}
    /\ Cardinality(call.results.not_following_back)
         < Cardinality(call.results.not_followed_by_me)
    /\ call.result[1].rows[3][2] = 1
    /\ call.result[1].rows[4][2] = 2

\* the members of the category written to the k-th sheet
Category(results, k) ==
    CASE k = 2 -> results.not_following_back
      [] k = 3 -> results.not_followed_by_me
      [] k = 4 -> results.mutual

\* C20: each of the three sheets that follow the summary has one row per
\* member of its category: the member's username as written, and the
\* string https://www.instagram.com/ followed by that username; the rows
\* stand in ascending order of the lower-cased username.
C20_DetailSheets ==
    call.fn = "generate_excel" =>
      \A k \in 2..4 :
        LET rows == call.result[k].rows
            users == Category(call.results, k)
        IN /\ Len(rows) = Cardinality(users)
           /\ {rows[i][1] : i \in 1..Len(rows)} = {u.username : u \in users}
           /\ \A i \in 1..Len(rows) :
                /\ Len(rows[i]) = 2
                /\ rows[i][2] = ProfileBase \o rows[i][1]
           /\ \A i \in 1..Len(rows) - 1 :
                StrLess(Lower(rows[i][1]), Lower(rows[i + 1][1]))

\* a sheet was written whose rows are a, then B: the order of the
\* lower-cased usernames, not of the usernames as written
C20_Witness ==
    /\ call.fn = "generate_excel"
    /\ \E k \in 2..4 :
         /\ Len(call.result[k].rows) = 2
         /\ call.result[k].rows[1] = <<<<"a">>, ProfileBase \o <<"a">>>>
         /\ call.result[k].rows[2][1] = <<"B">>

\* C21: generate_excel returns a workbook for every result, and always the
\* same four sheets: Resumen, No te siguen, No sigues and Mutuos, in that
\* order; each of the last three has the columns Usuario and Perfil, and
\* the sheet of a category without members has these two headers and no
\* rows.
C21_FourSheets ==
    call.fn = "generate_excel" =>
      /\ Len(call.result) = 4
      /\ [k \in 1..4 |-> call.result[k].name] = <<Resumen, NoTeSiguen, NoSigues, Mutuos>>
      /\ \A k \in 2..4 :
           /\ call.result[k].columns = <<"Usuario", "Perfil">>
           /\ Category(call.results, k) = {} => call.result[k].rows = <<>>

\* a workbook was written for a result with members that are not
\* following back and no mutual member: the sheet Mutuos is there, empty
C21_Witness ==
    /\ call.fn = "generate_excel"
    /\ call.results.mutual = {}
    /\ call.results.not_following_back # {}
    /\ Len(call.result) = 4
    /\ call.result[2].rows # <<>>
    /\ call.result[4] = [name |-> Mutuos, columns |-> <<"Usuario", "Perfil">>,
                         rows |-> <<>>]

(***************************************************************************)
(* The session                                                             *)
(***************************************************************************)
\* C22: in the state that follows a press of "Nuevo analisis" the session
\* holds its five keys at their defaults: no result, no followers set, no
\* following set and two empty timestamp maps; nothing of the run before
\* is left.
C22_NewAnalysisDiscardsAll ==
    run.trigger = "nuevo_analisis" =>
      /\ DOMAIN session_state = {"followers", "following", "results",
                                 "followers_timestamps", "following_timestamps"}
      /\ session_state.results = None
      /\ session_state.followers = None
      /\ session_state.following = None
      /\ DOMAIN session_state.followers_timestamps = {}
      /\ DOMAIN session_state.following_timestamps = {}

\* "Nuevo analisis" was pressed, and the page is back at the upload
\* section of step 1
C22_Witness ==
    /\ run.trigger = "nuevo_analisis"
    /\ session_state.results = None
    /\ session_state.followers = None
    /\ run.upload_section
    /\ ~run.results
    /\ run.step = 1

(***************************************************************************)
(* Parser calls in flight at once                                          *)
(***************************************************************************)
\* what a call returns when it runs alone
Alone(c) ==
    IF c.fn = "parse_followers_with_timestamps"
    THEN parse_followers_with_timestamps(c.files)
    ELSE parse_following_with_timestamps(c.content)

\* C23: whatever the order in which two parser calls run the iterations
\* of their loops, each call returns (or raises) what it returns (or
\* raises) when it runs alone on its argument.
C23_CallsShareNothing ==
    \A i \in 1..2 :
      calls.returned[i] # NotReturned =>
        calls.returned[i] = Alone(calls.args[i])

\* both calls have returned a member, the second having run an iteration
\* between two iterations of the first
C23_Witness ==
    /\ calls.schedule = <<1, 2, 1>>
    /\ calls.returned[1] # NotReturned
    /\ calls.returned[2] # NotReturned
    /\ calls.returned[1].exc = "none"
    /\ calls.returned[2].exc = "none"
    /\ calls.returned[1].users # {}
    /\ calls.returned[2].users # {}
    /\ calls.returned[1].users # calls.returned[2].users

(***************************************************************************)
(* A key that occurs more than once                                        *)
(***************************************************************************)
TimestampAt(files, p) == DictGet(ItemAt(files, p), "timestamp", JNull)

\* C24 as claimed: for well-formed buffers, a key that occurs more than
\* once with a timestamp is mapped to the timestamp of its last occurrence
\* that has one, in buffer, entry and item order.
C24_AsClaimed ==
    (call.fn = "parse_followers_with_timestamps" /\ AllWellFormed(call.files)) =>
      \A key \in OccurringKeys(call.files) :
        Cardinality(StampedPlaces(call.files, key)) > 1 =>
          /\ key \in DOMAIN call.result.timestamps
          /\ call.result.timestamps[key] =
               TimestampAt(call.files, Last(StampedPlaces(call.files, key)))

\* C24: for well-formed buffers, a key that occurs with a timestamp other
\* than zero is mapped to the timestamp of its last occurrence that has
\* one, in buffer, entry and item order; an occurrence that comes later
\* without a timestamp, or with the timestamp zero, leaves it in the map.
C24_LastTimestampWins ==
    (call.fn = "parse_followers_with_timestamps" /\ AllWellFormed(call.files)) =>
      \A key \in OccurringKeys(call.files) :
        NonZeroPlaces(call.files, key) # {} =>
          /\ key \in DOMAIN call.result.timestamps
          /\ call.result.timestamps[key] =
               TimestampAt(call.files, Last(NonZeroPlaces(call.files, key)))
          /\ \A p \in KeyPlaces(call.files, key) :
               TimestampAt(call.files, p) \in {JNull, JInt(0)}
                 => call.result.timestamps[key] # TimestampAt(call.files, p)

\* a key occurred with two different timestamps and then without one, and
\* the map holds the second
C24_Witness ==
    /\ call.fn = "parse_followers_with_timestamps"
    /\ AllWellFormed(call.files)
    /\ \E key \in OccurringKeys(call.files) :
         \E p, q, r \in KeyPlaces(call.files, key) :
           /\ Before(p, q) /\ Before(q, r)
           /\ TimestampAt(call.files, p) = JInt(1)
           /\ TimestampAt(call.files, q) = JInt(MaxTs)
           /\ ~HasField(ItemAt(call.files, r), "timestamp")
           /\ call.result.timestamps[key] = JInt(MaxTs)

\* the first titled entry of a key in a following buffer
FirstEntry(content, key) ==
    CHOOSE e \in TitledEntries(content) :
      /\ EntryKey(content, e) = key
      /\ \A d \in TitledEntries(content) : EntryKey(content, d) = key => e <= d

\* C25: in the set that a parser call returns for well-formed input, the
\* member of a key is spelled as the first occurrence of the key in the
\* input, in buffer, entry and item order (trimmed, its case kept);
\* occurrences that come later in another case never take its place.
C25_FirstDisplayFormKept ==
    /\ (call.fn \in {"parse_followers", "parse_followers_with_timestamps"}
          /\ AllWellFormed(call.files)) =>
         \A u \in call.result.users :
           /\ Lower(u.username) \in OccurringKeys(call.files)
           /\ u.username =
                HandleOf(ItemAt(call.files,
                                First(KeyPlaces(call.files, Lower(u.username)))))
    /\ (call.fn \in {"parse_following", "parse_following_with_timestamps"}
          /\ WellFormedFollowing(call.content)) =>
         \A u \in call.result.users :
           /\ Lower(u.username) \in TitleKeys(call.content)
           /\ u.username =
                TitleOf(RelationshipsOf(call.content)[
                          FirstEntry(call.content, Lower(u.username))])

\* a key occurred as A and later as a, and the set returned holds A alone
C25_Witness ==
    /\ call.fn = "parse_followers_with_timestamps"
    /\ AllWellFormed(call.files)
    /\ \E p, q \in ValuePlaces(call.files) :
         /\ Before(p, q)
         /\ HandleOf(ItemAt(call.files, p)) = <<"A">>
         /\ HandleOf(ItemAt(call.files, q)) = <<"a">>
    /\ call.result.users = {InstagramUser(<<"A">>)}

\* C26: every key of the timestamp map that a parser call returns is the
\* lower-cased username of a member of the set that the same call
\* returns; an item or entry that adds no member adds no key.
C26_KeysOfMembers ==
    (call.fn \in {"parse_followers_with_timestamps", "parse_following_with_timestamps"}
       /\ call.result.exc = "none") =>
      DOMAIN call.result.timestamps \subseteq Keys(call.result.users)

\* the followers parser returned a member with its timestamp for a list
\* in which an item without a value has a timestamp too
C26_Witness ==
    /\ call.fn = "parse_followers_with_timestamps"
    /\ call.result.exc = "none"
    /\ \E p \in Places(call.files) :
         /\ Lacks(ItemAt(call.files, p), "value")
         /\ Truthy(TimestampAt(call.files, p))
    /\ DOMAIN call.result.timestamps # {}
    /\ DOMAIN call.result.timestamps = Keys(call.result.users)

\* C27: in every state of the session that holds a result, the result is
\* analyze of the followers set and the following set that the session
\* holds; and from a state that holds a result to a state that holds one,
\* neither set changes.
C27_ResultOfStoredSets ==
    /\ [](session_state.results # None =>
            /\ session_state.followers # None
            /\ session_state.following # None
            /\ session_state.results = analyze(session_state.followers.users,
                                               session_state.following.users))
    /\ [][(session_state.results # None /\ session_state'.results # None) =>
            /\ session_state'.followers = session_state.followers
            /\ session_state'.following = session_state.following]_vars

\* a result is on the page, with a mutual member and a member that is not
\* following back, and a widget of the results has been used
C27_Witness ==
    /\ run.trigger = "browse"
    /\ session_state.results # None
    /\ session_state.results.mutual # {}
    /\ session_state.results.not_following_back # {}
    /\ session_state.results.total_followers = Cardinality(session_state.followers.users)

\* what the parse of the files of an uploader has given: nothing to store
\* when it has raised or has returned no user
NothingParsed(parsed) == parsed.exc # "none" \/ parsed.users = {}

\* the set and the map of a side are the ones the parse has returned
StoredFrom(parsed, users, timestamps) ==
    /\ parsed.exc = "none"
    /\ parsed.users # {}
    /\ users = Loaded(parsed.users)
    /\ timestamps = parsed.timestamps

\* C28: a run that finds files in an uploader whose parse raises or returns
\* no user leaves the set and the timestamps of that side as they were; and
\* a run that changes the set or the timestamps of a side has stored both
\* from the one parse of the files of that side.
C28_UploadWithoutUsers ==
    [][run'.trigger \in {"upload", "analizar"} =>
        /\ run'.followers_files # <<>> =>
             LET parsed == parse_followers_with_timestamps(run'.followers_files)
             IN /\ NothingParsed(parsed) =>
                     /\ session_state'.followers = session_state.followers
                     /\ session_state'.followers_timestamps =
                            session_state.followers_timestamps
                /\ \/ /\ session_state'.followers = session_state.followers
                      /\ session_state'.followers_timestamps =
                             session_state.followers_timestamps
                   \/ StoredFrom(parsed, session_state'.followers,
                                 session_state'.followers_timestamps)
        /\ run'.followers_files = <<>> =>
             /\ session_state'.followers = session_state.followers
             /\ session_state'.followers_timestamps =
                    session_state.followers_timestamps
        /\ run'.following_file # None =>
             LET parsed == parse_following_with_timestamps(run'.following_file)
             IN /\ NothingParsed(parsed) =>
                     /\ session_state'.following = session_state.following
                     /\ session_state'.following_timestamps =
                            session_state.following_timestamps
                /\ \/ /\ session_state'.following = session_state.following
                      /\ session_state'.following_timestamps =
                             session_state.following_timestamps
                   \/ StoredFrom(parsed, session_state'.following,
                                 session_state'.following_timestamps)
        /\ run'.following_file = None =>
             /\ session_state'.following = session_state.following
             /\ session_state'.following_timestamps =
                    session_state.following_timestamps]_vars

\* a run has found followers files whose parse raises and a following file
\* whose parse returns no user, and both sides hold the set loaded before
C28_Witness ==
    /\ run.trigger = "upload"
    /\ run.followers_files # <<>>
    /\ parse_followers_with_timestamps(run.followers_files).exc # "none"
    /\ run.following_file # None
    /\ parse_following_with_timestamps(run.following_file).exc = "none"
    /\ parse_following_with_timestamps(run.following_file).users = {}
    /\ session_state.followers # None
    /\ session_state.followers_timestamps # EmptyMap
    /\ session_state.following # None
    /\ session_state.following_timestamps # EmptyMap

\* C29: a run of the session that calls analyze hands it a followers set
\* and a following set that are both loaded and not empty, and the session
\* holds no result then; and the result a session holds counts at least
\* one follower and at least one following.
C29_AnalyzeOnLoadedSets ==
    /\ run.analyze # NotInvoked =>
         /\ run.analyze.followers # None
         /\ run.analyze.followers.users # {}
         /\ run.analyze.following # None
         /\ run.analyze.following.users # {}
         /\ run.analyze.results = None
    /\ session_state.results # None =>
         /\ session_state.results.total_followers >= 1
         /\ session_state.results.total_following >= 1

\* "Analizar" has been pressed in a run that found no followers files:
\* analyze has been called on the sets of earlier runs, two followers among
\* them, and its result is stored
C29_Witness ==
    /\ run.trigger = "analizar"
    /\ run.analyze # NotInvoked
    /\ run.followers_files = <<>>
    /\ session_state.results # None
    /\ session_state.results = analyze(run.analyze.followers.users,
                                       run.analyze.following.users)
    /\ session_state.results.total_followers = 2

\* C30: in every state of the session, the stepper of the last run shows
\* step 3 or a later one only if the session holds a followers set and a
\* following set, and shows step 4 exactly if the session holds a result.
C30_StepperFollowsSession ==
    /\ run.step >= 3 =>
         /\ session_state.followers # None
         /\ session_state.following # None
    /\ run.step = 4 <=> session_state.results # None
====
